---------------------------- MODULE Spec2Model ----------------------------
(***************************************************************************)
(* Model of the natural-language-to-SQL pipeline of src/ia_agent.py:       *)
(* question classification, SQL generation with retries, validation and   *)
(* correction of the candidate SQL, execution and interpretation.         *)
(*                                                                         *)
(* Text is modelled character by character: a Python str is a sequence of  *)
(* one-character strings.  A character outside ASCII is written by its     *)
(* code point ("U+274C" is the cross mark, "U+00E9" is e-acute) and the    *)
(* backquote is written "BQ"; each of these is ONE character of the text.  *)
(***************************************************************************)
EXTENDS Integers, Sequences, FiniteSets, TLC

VARIABLES
    client,         \* TRUE iff the module-level OpenAI client exists
    ANO_ATUAL,      \* year read from the clock when the module was imported
    pc,             \* position inside responder_pergunta_livre / the validator run
    pergunta,       \* the utterance of the current request
    tipo,           \* result of detectar_tipo_pergunta for the current request
    tentativa,      \* loop variable of gerar_sql_com_ia (0 outside the loop)
    sql_bruto,      \* text handed to validar_e_corrigir_sql
    valido,         \* first component of the validator's result
    sql_validado,   \* second component: corrected SQL or rejection reason
    revalidado,     \* result of validating the corrected SQL once more
    sql_executado,  \* text handed to cur.execute, Nulo when it never ran
    linhas,         \* number of rows fetched by executar_sql
    chamadas,       \* stages invoked by the current request, in call order
    desfecho,       \* which return statement ended the current request
    resposta,       \* string returned to the caller
    chamadas_llm,   \* calls of client.chat.completions.create by the current request
    esperas,        \* the time.sleep waits of the current request, in tenths of a second
    conexoes_abertas, \* store connections opened by executar_sql and not closed so far
    ano_relogio,    \* year the wall clock shows now
    chat_history,   \* turns kept by the session (st.session_state.chat_history, history of chat)
    history_for_ia, \* history handed to responder_pergunta_livre by the request in progress
    argumentos,     \* arguments of a helper function called on its own
    retorno         \* what that call returned, or the structure it built for the language model

vars == <<client, ANO_ATUAL, pc, pergunta, tipo, tentativa, sql_bruto, valido,
          sql_validado, revalidado, sql_executado, linhas, chamadas,
          desfecho, resposta, chamadas_llm, esperas, conexoes_abertas,
          ano_relogio, chat_history, history_for_ia, argumentos, retorno>>

\* what a request of the pipeline, the validator and the classifier leave alone
fora_do_pedido == <<ano_relogio, chat_history, history_for_ia, argumentos, retorno>>

Nulo == <<"None">>

-----------------------------------------------------------------------------
(* Characters and the str methods the code uses *)

minusculas == <<"a", "b", "c", "d", "e", "f", "g", "h", "i", "j", "k", "l", "m", "n", "o", "p", "q", "r", "s", "t", "u", "v", "w", "x", "y", "z", "U+00E1", "U+00E0", "U+00E2", "U+00E3", "U+00E9", "U+00EA", "U+00ED", "U+00F3", "U+00F4", "U+00F5", "U+00FA", "U+00E7">>
maiusculas == <<"A", "B", "C", "D", "E", "F", "G", "H", "I", "J", "K", "L", "M", "N", "O", "P", "Q", "R", "S", "T", "U", "V", "W", "X", "Y", "Z", "U+00C1", "U+00C0", "U+00C2", "U+00C3", "U+00C9", "U+00CA", "U+00CD", "U+00D3", "U+00D4", "U+00D5", "U+00DA", "U+00C7">>
digitos == <<"0", "1", "2", "3", "4", "5", "6", "7", "8", "9">>

Imagem(f) == {f[i] : i \in DOMAIN f}

\* \s of the re module and the characters str.strip() removes
espaco == {" ", "\n", "\t"}

\* \w of the re module
palavra == Imagem(minusculas) \cup Imagem(maiusculas) \cup Imagem(digitos) \cup {"_"}

\* the class [a-zA-Z0-9_.] of _extrair_tabelas
classe_tabela ==
    {minusculas[i] : i \in 1..26} \cup {maiusculas[i] : i \in 1..26}
        \cup Imagem(digitos) \cup {"_", "."}

tabela_upper == [c \in Imagem(minusculas) |->
                    maiusculas[CHOOSE i \in DOMAIN minusculas : minusculas[i] = c]]

tabela_lower == [c \in Imagem(maiusculas) |->
                    minusculas[CHOOSE i \in DOMAIN maiusculas : maiusculas[i] = c]]

valor_digito == [c \in Imagem(digitos) |->
                    (CHOOSE i \in DOMAIN digitos : digitos[i] = c) - 1]

maiuscula(c) == IF c \in DOMAIN tabela_upper THEN tabela_upper[c] ELSE c
minuscula(c) == IF c \in DOMAIN tabela_lower THEN tabela_lower[c] ELSE c

upper(s) == [i \in 1..Len(s) |-> maiuscula(s[i])]
lower(s) == [i \in 1..Len(s) |-> minuscula(s[i])]

Minimo(S) == CHOOSE x \in S : \A y \in S : x <= y

strip(s) ==
    IF \A i \in 1..Len(s) : s[i] \in espaco THEN <<>>
    ELSE LET a == CHOOSE i \in 1..Len(s) :
                     /\ s[i] \notin espaco
                     /\ \A j \in 1..(i - 1) : s[j] \in espaco
             z == CHOOSE i \in 1..Len(s) :
                     /\ s[i] \notin espaco
                     /\ \A j \in (i + 1)..Len(s) : s[j] \in espaco
         IN  SubSeq(s, a, z)

\* p occurs in s starting at position i
ocorre_em(s, p, i) ==
    /\ i >= 1
    /\ i + Len(p) - 1 <= Len(s)
    /\ \A k \in 1..Len(p) : s[i + k - 1] = p[k]

\* the Python expression  p in s
contem(s, p) == \E i \in 1..(Len(s) - Len(p) + 1) : ocorre_em(s, p, i)

startswith(s, p) == ocorre_em(s, p, 1)

\* str.replace: every occurrence, leftmost first, without overlap
RECURSIVE replace(_, _, _)
replace(s, p, r) ==
    IF ~contem(s, p) THEN s
    ELSE LET i == Minimo({j \in 1..Len(s) : ocorre_em(s, p, j)})
         IN  SubSeq(s, 1, i - 1) \o r
                 \o replace(SubSeq(s, i + Len(p), Len(s)), p, r)

\* s.split(c, 1)[0]
antes_do_primeiro(s, c) ==
    IF \A i \in 1..Len(s) : s[i] # c THEN s
    ELSE SubSeq(s, 1, (CHOOSE i \in 1..Len(s) :
                           s[i] = c /\ \A j \in 1..(i - 1) : s[j] # c) - 1)

\* int(ds) for a string of decimal digits
RECURSIVE int(_)
int(ds) ==
    IF ds = <<>> THEN 0
    ELSE int(SubSeq(ds, 1, Len(ds) - 1)) * 10 + valor_digito[ds[Len(ds)]]

\* str(n) for a natural number
RECURSIVE str(_)
str(n) ==
    IF n < 10 THEN <<digitos[n + 1]>>
    ELSE str(n \div 10) \o <<digitos[(n % 10) + 1]>>

\* first position from i on whose character is not in the class (Len(s)+1 if none):
\* where a greedy  [class]*  that starts at i stops
fim_da_serie(s, i, classe) ==
    IF i > Len(s) THEN i
    ELSE CHOOSE j \in i..(Len(s) + 1) :
            /\ \A x \in i..(j - 1) : s[x] \in classe
            /\ j <= Len(s) => s[j] \notin classe

\* \b at the left of position i, and at the right of position j, when the
\* characters at i and j are word characters
borda_antes(s, i) == i = 1 \/ s[i - 1] \notin palavra
borda_depois(s, j) == j = Len(s) \/ s[j + 1] \notin palavra

\* a literal matched with re.IGNORECASE at position i
ocorre_sem_caixa(s, p, i) ==
    /\ i >= 1
    /\ i + Len(p) - 1 <= Len(s)
    /\ \A k \in 1..Len(p) : maiuscula(s[i + k - 1]) = maiuscula(p[k])

-----------------------------------------------------------------------------
(* validar_e_corrigir_sql and its helpers *)

TABELAS_PERMITIDAS == {
    <<"c", "o", "n", "t", "e", "l", "e", ".", "c", "o", "n", "t", "e", "l", "e", "_", "o", "s">>,
    <<"c", "o", "n", "t", "e", "l", "e", ".", "c", "o", "n", "t", "e", "l", "e", "_", "o", "s", "_", "a", "l", "l">>,
    <<"c", "o", "n", "t", "e", "l", "e", ".", "c", "o", "n", "t", "e", "l", "e", "_", "a", "n", "s", "w", "e", "r", "s">>,
    <<"c", "o", "n", "t", "e", "l", "e", ".", "c", "o", "n", "t", "e", "l", "e", "_", "a", "n", "s", "w", "e", "r", "s", "_", "a", "l", "l">>,
    <<"c", "o", "n", "t", "e", "l", "e", ".", "v", "w", "_", "t", "o", "d", "a", "s", "_", "o", "s", "_", "r", "e", "s", "p", "o", "s", "t", "a", "s">>,
    <<"c", "o", "n", "t", "e", "l", "e", ".", "v", "w", "_", "p", "r", "o", "s", "p", "e", "c", "c", "a", "o">>,
    <<"c", "o", "n", "t", "e", "l", "e", ".", "v", "w", "_", "r", "e", "l", "a", "c", "i", "o", "n", "a", "m", "e", "n", "t", "o">>,
    <<"c", "o", "n", "t", "e", "l", "e", ".", "v", "w", "_", "l", "e", "v", "a", "n", "t", "a", "m", "e", "n", "t", "o", "_", "d", "e", "_", "n", "e", "c", "e", "s", "s", "i", "d", "a", "d", "e">>,
    <<"c", "o", "n", "t", "e", "l", "e", ".", "v", "w", "_", "v", "i", "s", "i", "t", "a", "_", "t", "e", "c", "n", "i", "c", "a">>,
    <<"c", "o", "n", "t", "e", "l", "e", ".", "v", "w", "_", "r", "e", "s", "u", "m", "o", "_", "v", "e", "n", "d", "e", "d", "o", "r", "e", "s">>,
    <<"c", "o", "n", "t", "e", "l", "e", ".", "v", "w", "_", "r", "e", "s", "u", "m", "o", "_", "c", "l", "i", "e", "n", "t", "e", "s">>,
    <<"c", "o", "n", "t", "e", "l", "e", ".", "v", "w", "_", "t", "i", "m", "e", "l", "i", "n", "e", "_", "a", "t", "i", "v", "i", "d", "a", "d", "e", "s">>,
    <<"c", "o", "n", "t", "e", "l", "e", ".", "v", "w", "_", "p", "e", "n", "d", "e", "n", "c", "i", "a", "s">>,
    <<"c", "o", "n", "t", "e", "l", "e", ".", "v", "w", "_", "r", "e", "s", "u", "m", "o", "_", "p", "e", "n", "d", "e", "n", "c", "i", "a", "s", "_", "v", "e", "n", "d", "e", "d", "o", "r">>,
    <<"c", "o", "n", "t", "e", "l", "e", ".", "v", "w", "_", "r", "e", "s", "u", "m", "o", "_", "p", "e", "n", "d", "e", "n", "c", "i", "a", "s", "_", "c", "l", "i", "e", "n", "t", "e">>,
    <<"c", "o", "n", "t", "e", "l", "e", ".", "v", "w", "_", "v", "i", "s", "i", "t", "a", "s", "_", "s", "t", "a", "t", "u", "s">>,
    <<"c", "o", "n", "t", "e", "l", "e", ".", "v", "w", "_", "p", "o", "r", "t", "f", "o", "l", "i", "o", "_", "c", "l", "i", "e", "n", "t", "e", "s">> }

\* the list of line 1043 with one keyword forgotten
comandos_bloqueados_sem_drop == <<
    <<"D", "E", "L", "E", "T", "E">>, <<"U", "P", "D", "A", "T", "E">>, <<"I", "N", "S", "E", "R", "T">>, <<"T", "R", "U", "N", "C", "A", "T", "E">>,
    <<"A", "L", "T", "E", "R">>, <<"C", "R", "E", "A", "T", "E">>, <<"G", "R", "A", "N", "T">>, <<"R", "E", "V", "O", "K", "E">> >>

comandos_bloqueados == <<
    <<"D", "R", "O", "P">>, <<"D", "E", "L", "E", "T", "E">>, <<"U", "P", "D", "A", "T", "E">>, <<"I", "N", "S", "E", "R", "T">>, <<"T", "R", "U", "N", "C", "A", "T", "E">>,
    <<"A", "L", "T", "E", "R">>, <<"C", "R", "E", "A", "T", "E">>, <<"G", "R", "A", "N", "T">>, <<"R", "E", "V", "O", "K", "E">> >>

vw_todas == <<"c", "o", "n", "t", "e", "l", "e", ".", "v", "w", "_", "t", "o", "d", "a", "s", "_", "o", "s", "_", "r", "e", "s", "p", "o", "s", "t", "a", "s">>
count_distinct == <<"C", "O", "U", "N", "T", "(", "D", "I", "S", "T", "I", "N", "C", "T", " ", "t", "a", "s", "k", "_", "i", "d", ")">>

\* end of a match of  kw\s+([a-zA-Z0-9_.]+)  preceded by \b at position i
\* (IGNORECASE), or 0; the token is what lies between the blanks and the end
fim_de_tabela(s, kw, i) ==
    IF ~(borda_antes(s, i) /\ ocorre_sem_caixa(s, kw, i)) THEN 0
    ELSE LET j == fim_da_serie(s, i + Len(kw), espaco)
             k == fim_da_serie(s, j, classe_tabela)
         IN  IF j > i + Len(kw) /\ k > j THEN k - 1 ELSE 0

\* re.findall(r"\bKW\s+([a-zA-Z0-9_.]+)", sql, flags=re.IGNORECASE) from
\* position i on: the captured tokens of the matches, found left to right
\* without overlap
RECURSIVE findall_tabelas(_, _, _)
findall_tabelas(s, kw, i) ==
    LET achados == {j \in i..Len(s) : fim_de_tabela(s, kw, j) # 0}
    IN  IF achados = {} THEN {}
        ELSE LET m == Minimo(achados)
                 e == fim_de_tabela(s, kw, m)
             IN  {SubSeq(s, fim_da_serie(s, m + Len(kw), espaco), e)}
                     \cup findall_tabelas(s, kw, e + 1)

\* _extrair_tabelas without its second loop
extrair_tabelas_so_from(sql) == findall_tabelas(sql, <<"F", "R", "O", "M">>, 1)

extrair_tabelas(sql) ==
    findall_tabelas(sql, <<"F", "R", "O", "M">>, 1) \cup findall_tabelas(sql, <<"J", "O", "I", "N">>, 1)

tem_colunas_invalidas(sql) ==
    LET sql_lower == lower(sql)
    IN  \/ contem(sql_lower, <<"d", "a", "t", "a", "_", "c", "r", "i", "a", "c", "a", "o", "_", "p", "e", "n", "d", "e", "n", "c", "i", "a">>)
        \/ contem(sql_lower, <<"d", "e", "s", "c", "r", "i", "c", "a", "o", "_", "p", "e", "n", "d", "e", "n", "c", "i", "a">>)

\* every character of s[a..b] is a blank
so_espacos(s, a, b) == \A x \in a..b : s[x] \in espaco

\* re.search(r"SELECT\s+.+\s+FROM\s+contele\.contele_os\s+LIMIT\s+1\b", sql, IGNORECASE):
\* SELECT at i, FROM at f, and between them  \s+ .+ \s+  ('.' is any character
\* but the newline); after FROM the table, LIMIT and 1, each after blanks
padrao_limite1(s) ==
    \E i \in 1..Len(s) :
        /\ ocorre_sem_caixa(s, <<"S", "E", "L", "E", "C", "T">>, i)
        /\ \E f \in (i + 9)..Len(s) :
              /\ ocorre_sem_caixa(s, <<"F", "R", "O", "M">>, f)
              /\ \E a \in (i + 6)..(f - 3), b \in (i + 8)..(f - 1) :
                    /\ a < b - 1
                    /\ so_espacos(s, i + 6, a)
                    /\ so_espacos(s, b, f - 1)
                    /\ \A x \in (a + 1)..(b - 1) : s[x] # "\n"
              /\ LET t == fim_da_serie(s, f + 4, espaco)
                     l == fim_da_serie(s, t + 18, espaco)
                     u == fim_da_serie(s, l + 5, espaco)
                 IN  /\ t > f + 4
                     /\ ocorre_sem_caixa(s, <<"c", "o", "n", "t", "e", "l", "e", ".", "c", "o", "n", "t", "e", "l", "e", "_", "o", "s">>, t)
                     /\ l > t + 18
                     /\ ocorre_sem_caixa(s, <<"L", "I", "M", "I", "T">>, l)
                     /\ u > l + 5
                     /\ ocorre_em(s, <<"1">>, u)
                     /\ borda_depois(s, u)

\* lines 1000-1008 without the tests of WHERE and ORDER BY
detectar_sql_generico_so_padrao(sql) == padrao_limite1(sql)

\* lines 1000-1008
detectar_sql_generico(sql) ==
    LET sem_where == ~contem(upper(sql), <<"W", "H", "E", "R", "E">>)
        sem_order == ~contem(upper(sql), <<"O", "R", "D", "E", "R", " ", "B", "Y">>)
    IN  padrao_limite1(sql) /\ sem_where /\ sem_order

\* the pattern of line 1018 matched without re.IGNORECASE
fim_de_count_com_caixa(s, i) ==
    IF ~ocorre_em(s, <<"C", "O", "U", "N", "T">>, i) THEN 0
    ELSE LET a == fim_da_serie(s, i + 5, espaco)
             b == fim_da_serie(s, a + 1, espaco)
             c == fim_da_serie(s, b + 1, espaco)
         IN  IF /\ ocorre_em(s, <<"(">>, a)
                /\ ocorre_em(s, <<"*">>, b)
                /\ ocorre_em(s, <<")">>, c)
             THEN c ELSE 0

\* end of a match of  COUNT\s*\(\s*\*\s*\)  (IGNORECASE) at position i, or 0
fim_de_count(s, i) ==
    IF ~ocorre_sem_caixa(s, <<"C", "O", "U", "N", "T">>, i) THEN 0
    ELSE LET a == fim_da_serie(s, i + 5, espaco)
             b == fim_da_serie(s, a + 1, espaco)
             c == fim_da_serie(s, b + 1, espaco)
         IN  IF /\ ocorre_em(s, <<"(">>, a)
                /\ ocorre_em(s, <<"*">>, b)
                /\ ocorre_em(s, <<")">>, c)
             THEN c ELSE 0

\* re.sub called with count=1: only the first match is replaced
sub_count_so_o_primeiro(s) ==
    LET achados == {i \in 1..Len(s) : fim_de_count(s, i) # 0}
    IN  IF achados = {} THEN s
        ELSE LET m == Minimo(achados)
             IN  SubSeq(s, 1, m - 1) \o count_distinct
                     \o SubSeq(s, fim_de_count(s, m) + 1, Len(s))

\* re.sub(r"COUNT\s*\(\s*\*\s*\)", "COUNT(DISTINCT task_id)", sql, IGNORECASE)
RECURSIVE sub_count(_)
sub_count(s) ==
    LET achados == {i \in 1..Len(s) : fim_de_count(s, i) # 0}
    IN  IF achados = {} THEN s
        ELSE LET m == Minimo(achados)
             IN  SubSeq(s, 1, m - 1) \o count_distinct
                     \o sub_count(SubSeq(s, fim_de_count(s, m) + 1, Len(s)))

forcar_distinct_task_id_em_vw_todas(sql) ==
    IF contem(sql, vw_todas) THEN sub_count(sql) ELSE sql

\* the cleaning without the cut at the first ';'
limpar_sem_corte(sql) ==
    strip(replace(replace(strip(sql), <<"BQ", "BQ", "BQ", "s", "q", "l">>, <<>>), <<"BQ", "BQ", "BQ">>, <<>>))

\* lines 1028-1033: markdown, blanks, first statement only
limpar(sql) ==
    LET a == strip(sql)
        b == strip(replace(replace(a, <<"BQ", "BQ", "BQ", "s", "q", "l">>, <<>>), <<"BQ", "BQ", "BQ">>, <<>>))
    IN  IF contem(b, <<";">>) THEN strip(antes_do_primeiro(b, ";")) ELSE b

\* the test of line 1040 written with  in  instead of  startswith
contem_select_ou_with(sql_upper) ==
    contem(sql_upper, <<"S", "E", "L", "E", "C", "T">>) \/ contem(sql_upper, <<"W", "I", "T", "H">>)

comeca_com_select_ou_with(sql_upper) ==
    startswith(sql_upper, <<"S", "E", "L", "E", "C", "T">>) \/ startswith(sql_upper, <<"W", "I", "T", "H">>)

\* re.search(rf"\b{cmd}\b", sql_upper)
comando_presente(sql_upper, cmd) ==
    \E i \in 1..Len(sql_upper) :
        /\ ocorre_em(sql_upper, cmd, i)
        /\ borda_antes(sql_upper, i)
        /\ borda_depois(sql_upper, i + Len(cmd) - 1)

\* positions of the matches of  \b(20\d{2})[-/]
posicoes_de_ano(s) ==
    {i \in 1..(Len(s) - 4) :
        /\ borda_antes(s, i)
        /\ ocorre_em(s, <<"2", "0">>, i)
        /\ s[i + 2] \in Imagem(digitos)
        /\ s[i + 3] \in Imagem(digitos)
        /\ s[i + 4] \in {"-", "/"}}

ANO_MINIMO == 2024

\* line 1061
ano_invalido(ano_int, ano_atual) == ano_int < ANO_MINIMO \/ ano_int > ano_atual

\* dotted names of FROM/JOIN that are not on the allow-list (lines 1072-1077)
tabelas_recusadas(sql) ==
    {t \in extrair_tabelas(sql) : contem(t, <<".">>) /\ t \notin TABELAS_PERMITIDAS}

LIMITE_MAXIMO == 1000

\* end of a match of  LIMIT\s+\d+  (IGNORECASE) at position i, or 0
fim_de_limit(s, i) ==
    IF ~ocorre_sem_caixa(s, <<"L", "I", "M", "I", "T">>, i) THEN 0
    ELSE LET j == fim_da_serie(s, i + 5, espaco)
             k == fim_da_serie(s, j, Imagem(digitos))
         IN  IF j > i + 5 /\ k > j THEN k - 1 ELSE 0

\* re.sub(r"LIMIT\s+\d+", "LIMIT 1000", sql, flags=re.IGNORECASE)
RECURSIVE sub_limit(_)
sub_limit(s) ==
    LET achados == {i \in 1..Len(s) : fim_de_limit(s, i) # 0}
    IN  IF achados = {} THEN s
        ELSE LET m == Minimo(achados)
             IN  SubSeq(s, 1, m - 1) \o <<"L", "I", "M", "I", "T", " ", "1", "0", "0", "0">>
                     \o sub_limit(SubSeq(s, fim_de_limit(s, m) + 1, Len(s)))

\* lines 1082-1083 without the test: LIMIT 100 is always appended
aplicar_limite_sempre(sql_limpo) == sql_limpo \o <<"\n", "L", "I", "M", "I", "T", " ", "1", "0", "0">>

\* lines 1082-1094
aplicar_limite(sql_limpo) ==
    LET sql_upper == upper(sql_limpo)
        achados == {i \in 1..Len(sql_upper) : fim_de_limit(sql_upper, i) # 0}
    IN  IF ~contem(sql_upper, <<"L", "I", "M", "I", "T">>) THEN sql_limpo \o <<"\n", "L", "I", "M", "I", "T", " ", "1", "0", "0">>
        ELSE IF achados = {} THEN sql_limpo
        ELSE LET m == Minimo(achados)
                 e == fim_de_limit(sql_upper, m)
                 limite == int(SubSeq(sql_upper, fim_da_serie(sql_upper, m + 5, espaco), e))
             IN  IF limite > LIMITE_MAXIMO THEN sub_limit(sql_limpo) ELSE sql_limpo

msg_inicio == <<"U+274C", " ", "S", "Q", "L", " ", "d", "e", "v", "e", " ", "c", "o", "m", "e", "U+00E7", "a", "r", " ", "c", "o", "m", " ", "S", "E", "L", "E", "C", "T", " ", "o", "u", " ", "W", "I", "T", "H">>
msg_comando(cmd) == <<"U+274C", " ", "C", "o", "m", "a", "n", "d", "o", " ">> \o cmd \o <<" ", "n", "U+00E3", "o", " ", "p", "e", "r", "m", "i", "t", "i", "d", "o">>
msg_ano(ano, ano_atual) ==
    <<"U+274C", " ", "A", "n", "o", " ">> \o str(ano) \o <<" ", "i", "n", "v", "U+00E1", "l", "i", "d", "o", " ", "n", "a", " ", "c", "o", "n", "s", "u", "l", "t", "a", " ", "(", "c", "o", "r", "r", "i", "j", "a", " ", "p", "a", "r", "a", " ">>
        \o str(ano_atual) \o <<" ", "s", "e", " ", "a", "p", "l", "i", "c", "U+00E1", "v", "e", "l", ")">>
msg_tabela(t) == <<"U+274C", " ", "R", "e", "f", "e", "r", "U+00EA", "n", "c", "i", "a", " ", "a", " ", "t", "a", "b", "e", "l", "a", "/", "v", "i", "e", "w", " ", "n", "U+00E3", "o", " ", "p", "e", "r", "m", "i", "t", "i", "d", "a", ":", " ">> \o t
msg_colunas == <<"U+274C", " ", "E", "s", "t", "U+00E3", "o", " ", "s", "e", "n", "d", "o", " ", "u", "s", "a", "d", "a", "s", " ", "c", "o", "l", "u", "n", "a", "s", " ", "q", "u", "e", " ", "n", "U+00E3", "o", " ", "e", "x", "i", "s", "t", "e", "m", " ", "e", "m", " ", "v", "w", "_", "p", "e", "n", "d", "e", "n", "c", "i", "a", "s", " ", "(", "e", "x", ".", ":", " ", "d", "a", "t", "a", "_", "c", "r", "i", "a", "c", "a", "o", "_", "p", "e", "n", "d", "e", "n", "c", "i", "a", ")", ".", " ", "A", "j", "u", "s", "t", "e", " ", "p", "a", "r", "a", " ", "u", "s", "a", "r", " ", "o", "s", "_", "c", "r", "e", "a", "t", "e", "d", "_", "a", "t", ".">>
msg_generica == <<"U+274C", " ", "Q", "u", "e", "r", "y", " ", "m", "u", "i", "t", "o", " ", "g", "e", "n", "U+00E9", "r", "i", "c", "a", ".", " ", "E", "s", "p", "e", "c", "i", "f", "i", "q", "u", "e", " ", "O", "S", ",", " ", "p", "e", "r", "U+00ED", "o", "d", "o", " ", "o", "u", " ", "o", "b", "j", "e", "t", "i", "v", "o", ".">>

\* the validator with the table and column tests of lines 1067-1080 before
\* the year test of lines 1058-1065
validar_e_corrigir_sql_ano_depois(sql, ano_atual) ==
    LET sql_limpo == forcar_distinct_task_id_em_vw_todas(limpar(sql))
        sql_upper == upper(sql_limpo)
        bloqueados == {n \in DOMAIN comandos_bloqueados :
                          comando_presente(sql_upper, comandos_bloqueados[n])}
        anos_ruins == {i \in posicoes_de_ano(sql_limpo) :
                          ano_invalido(int(SubSeq(sql_limpo, i, i + 3)), ano_atual)}
        recusadas == tabelas_recusadas(sql_limpo)
        final == aplicar_limite(sql_limpo)
    IN  IF ~comeca_com_select_ou_with(sql_upper)
            THEN {<<FALSE, msg_inicio>>}
        ELSE IF bloqueados # {}
            THEN {<<FALSE, msg_comando(comandos_bloqueados[Minimo(bloqueados)])>>}
        ELSE IF recusadas # {}
            THEN {<<FALSE, msg_tabela(t)>> : t \in recusadas}
        ELSE IF tem_colunas_invalidas(sql_limpo)
            THEN {<<FALSE, msg_colunas>>}
        ELSE IF anos_ruins # {}
            THEN {<<FALSE, msg_ano(int(SubSeq(sql_limpo, Minimo(anos_ruins),
                                              Minimo(anos_ruins) + 3)), ano_atual)>>}
        ELSE IF detectar_sql_generico(final)
            THEN {<<FALSE, msg_generica>>}
        ELSE {<<TRUE, final>>}

\* The results validar_e_corrigir_sql(sql) can return, as pairs <<ok, text>>.
\* tabelas_usadas is a Python set of str, whose iteration order is not fixed:
\* when several names are refused, any of them can be the one reported.
validar_e_corrigir_sql(sql, ano_atual) ==
    LET sql_limpo == forcar_distinct_task_id_em_vw_todas(limpar(sql))
        sql_upper == upper(sql_limpo)
        bloqueados == {n \in DOMAIN comandos_bloqueados :
                          comando_presente(sql_upper, comandos_bloqueados[n])}
        anos_ruins == {i \in posicoes_de_ano(sql_limpo) :
                          ano_invalido(int(SubSeq(sql_limpo, i, i + 3)), ano_atual)}
        recusadas == tabelas_recusadas(sql_limpo)
        final == aplicar_limite(sql_limpo)
    IN  IF ~comeca_com_select_ou_with(sql_upper)
            THEN {<<FALSE, msg_inicio>>}
        ELSE IF bloqueados # {}
            THEN {<<FALSE, msg_comando(comandos_bloqueados[Minimo(bloqueados)])>>}
        ELSE IF anos_ruins # {}
            THEN {<<FALSE, msg_ano(int(SubSeq(sql_limpo, Minimo(anos_ruins),
                                              Minimo(anos_ruins) + 3)), ano_atual)>>}
        ELSE IF recusadas # {}
            THEN {<<FALSE, msg_tabela(t)>> : t \in recusadas}
        ELSE IF tem_colunas_invalidas(sql_limpo)
            THEN {<<FALSE, msg_colunas>>}
        ELSE IF detectar_sql_generico(final)
            THEN {<<FALSE, msg_generica>>}
        ELSE {<<TRUE, final>>}

-----------------------------------------------------------------------------
(* Candidate texts: what the language model can answer and what a caller can
   hand to the validator.  A candidate is a concatenation of at most
   MaxPedacos fragments; the fragments carry their own blanks. *)

MaxPedacos == 3

pedacos == <<
    <<"S", "E", "L", "E", "C", "T", " ", "x">>,
    <<"s", "e", "l", "e", "c", "t", " ", "c", "o", "u", "n", "t", "(", " ", "*", " ", ")">>,
    <<",", " ", "C", "O", "U", "N", "T", "(", "*", ")">>,
    <<"W", "I", "T", "H", " ", "c", " ", "A", "S", " ", "(", "x", ")">>,
    <<" ", "F", "R", "O", "M", " ", "c", "o", "n", "t", "e", "l", "e", ".", "v", "w", "_", "t", "o", "d", "a", "s", "_", "o", "s", "_", "r", "e", "s", "p", "o", "s", "t", "a", "s">>,
    <<" ", "F", "R", "O", "M", " ", "c", "o", "n", "t", "e", "l", "e", ".", "c", "o", "n", "t", "e", "l", "e", "_", "o", "s">>,
    <<" ", "F", "R", "O", "M", " ", "s", "e", "c", "r", "e", "t", "_", "t", "a", "b", "l", "e">>,
    <<" ", "J", "O", "I", "N", " ", "s", "e", "c", ".", "t">>,
    <<" ", "W", "H", "E", "R", "E", " ", "d", " ", ">", "=", " ", "'", "2", "0", "2", "3", "-", "0", "1", "-", "0", "1", "'">>,
    <<" ", "L", "I", "M", "I", "T", " ", "5", "0", "0", "0">>,
    <<" ", "L", "I", "M", "I", "T", " ", "1">>,
    <<";">>,
    <<" ", "d", "r", "o", "p", " ", "t", "a", "b", "l", "e", " ", "t">>,
    <<"BQ", "BQ", "BQ", "s", "q", "l", "\n">> >>

RECURSIVE juntar(_)
juntar(ps) == IF ps = <<>> THEN <<>> ELSE pedacos[Head(ps)] \o juntar(Tail(ps))

\* scenarios 3 and 4 of the specification's end-to-end list
cenario3 == <<"S", "E", "L", "E", "C", "T", " ", "s", "e", "c", "r", "e", "t", "_", "t", "a", "b", "l", "e", ".", "x", " ", "F", "R", "O", "M", " ", "s", "e", "c", "r", "e", "t", "_", "t", "a", "b", "l", "e">>
cenario4 == <<"S", "E", "L", "E", "C", "T", " ", "C", "O", "U", "N", "T", "(", "*", ")", " ", "F", "R", "O", "M", " ", "c", "o", "n", "t", "e", "l", "e", ".", "v", "w", "_", "t", "o", "d", "a", "s", "_", "o", "s", "_", "r", "e", "s", "p", "o", "s", "t", "a", "s">>

\* an answer inside a markdown fence, with a date of an accepted year
resposta_cercada ==
    <<"BQ", "BQ", "BQ", "s", "q", "l", "\n", "S", "E", "L", "E", "C", "T", " ", "x", " ", "F", "R", "O", "M", " ", "c", "o", "n", "t", "e", "l", "e", ".", "c", "o", "n", "t", "e", "l", "e", "_", "o", "s", " ", "W", "H", "E", "R", "E", " ", "d", " ", "<", " ", "'", "2", "0", "2", "5", "-", "0", "6", "-", "0", "1", "'", "\n", "BQ", "BQ", "BQ">>

\* dates of other years: two years before the year of import, a year of
\* another century, a year after the year of import
cenario_ano_retrasado ==
    <<"S", "E", "L", "E", "C", "T", " ", "x", " ", "F", "R", "O", "M", " ", "c", "o", "n", "t", "e", "l", "e", ".", "c", "o", "n", "t", "e", "l", "e", "_", "o", "s", " ", "W", "H", "E", "R", "E", " ", "d", " ", ">", "=", " ", "'", "2", "0", "2", "4", "-", "0", "1", "-", "0", "1", "'">>
cenario_ano_antigo ==
    <<"S", "E", "L", "E", "C", "T", " ", "x", " ", "F", "R", "O", "M", " ", "c", "o", "n", "t", "e", "l", "e", ".", "c", "o", "n", "t", "e", "l", "e", "_", "o", "s", " ", "W", "H", "E", "R", "E", " ", "d", " ", ">", "=", " ", "'", "1", "9", "9", "9", "-", "1", "2", "-", "3", "1", "'">>
cenario_ano_futuro ==
    <<"S", "E", "L", "E", "C", "T", " ", "x", " ", "F", "R", "O", "M", " ", "c", "o", "n", "t", "e", "l", "e", ".", "c", "o", "n", "t", "e", "l", "e", "_", "o", "s", " ", "W", "H", "E", "R", "E", " ", "d", " ", "<", " ", "'", "2", "0", "2", "8", "/", "0", "1", "/", "0", "1", "'">>

\* a date of the year after the year of import
cenario_ano_seguinte ==
    <<"S", "E", "L", "E", "C", "T", " ", "x", " ", "F", "R", "O", "M", " ", "c", "o", "n", "t", "e", "l", "e", ".", "c", "o", "n", "t", "e", "l", "e", "_", "o", "s", " ", "W", "H", "E", "R", "E", " ", "d", " ", ">", "=", " ", "'", "2", "0", "2", "7", "-", "0", "1", "-", "0", "1", "'">>

\* statements that break two rules of the validator at once
cenario_tabela_e_ano ==
    <<"S", "E", "L", "E", "C", "T", " ", "x", " ", "F", "R", "O", "M", " ", "s", "e", "c", ".", "t", " ", "W", "H", "E", "R", "E", " ", "d", " ", ">", "=", " ", "'", "2", "0", "2", "3", "-", "0", "1", "-", "0", "1", "'">>
cenario_coluna_e_ano ==
    <<"S", "E", "L", "E", "C", "T", " ", "d", "a", "t", "a", "_", "c", "r", "i", "a", "c", "a", "o", "_", "p", "e", "n", "d", "e", "n", "c", "i", "a", " ", "F", "R", "O", "M", " ", "c", "o", "n", "t", "e", "l", "e", ".", "v", "w", "_", "p", "e", "n", "d", "e", "n", "c", "i", "a", "s", " ", "W", "H", "E", "R", "E", " ", "d", " ", ">", "=", " ", "'", "2", "0", "2", "3", "-", "0", "1", "-", "0", "1", "'">>
cenario_tabela_e_coluna ==
    <<"S", "E", "L", "E", "C", "T", " ", "d", "e", "s", "c", "r", "i", "c", "a", "o", "_", "p", "e", "n", "d", "e", "n", "c", "i", "a", " ", "F", "R", "O", "M", " ", "s", "e", "c", ".", "t">>
cenario_coluna_e_generica ==
    <<"S", "E", "L", "E", "C", "T", " ", "d", "a", "t", "a", "_", "c", "r", "i", "a", "c", "a", "o", "_", "p", "e", "n", "d", "e", "n", "c", "i", "a", " ", "F", "R", "O", "M", " ", "c", "o", "n", "t", "e", "l", "e", ".", "c", "o", "n", "t", "e", "l", "e", "_", "o", "s", " ", "L", "I", "M", "I", "T", " ", "1">>

\* columns the schema text of lines 201-204 says vw_pendencias does not have
cenario_pendencia_aberta ==
    <<"S", "E", "L", "E", "C", "T", " ", "p", "e", "n", "d", "e", "n", "c", "i", "a", "_", "a", "b", "e", "r", "t", "a", " ", "F", "R", "O", "M", " ", "c", "o", "n", "t", "e", "l", "e", ".", "v", "w", "_", "p", "e", "n", "d", "e", "n", "c", "i", "a", "s">>
cenario_descricao_pendencia ==
    <<"S", "E", "L", "E", "C", "T", " ", "D", "e", "s", "c", "r", "i", "c", "a", "o", "_", "P", "e", "n", "d", "e", "n", "c", "i", "a", " ", "F", "R", "O", "M", " ", "c", "o", "n", "t", "e", "l", "e", ".", "v", "w", "_", "p", "e", "n", "d", "e", "n", "c", "i", "a", "s">>

\* scans with LIMIT 1: of contele_os, of another allowed view, and of
\* contele_os in a statement that has a WHERE elsewhere
cenario_generica ==
    <<"s", "e", "l", "e", "c", "t", " ", "x", " ", "f", "r", "o", "m", " ", "c", "o", "n", "t", "e", "l", "e", ".", "c", "o", "n", "t", "e", "l", "e", "_", "o", "s", " ", "l", "i", "m", "i", "t", " ", "1">>
cenario_generica_outra_view ==
    <<"S", "E", "L", "E", "C", "T", " ", "x", " ", "F", "R", "O", "M", " ", "c", "o", "n", "t", "e", "l", "e", ".", "v", "w", "_", "p", "e", "n", "d", "e", "n", "c", "i", "a", "s", " ", "L", "I", "M", "I", "T", " ", "1">>
cenario_generica_com_where ==
    <<"W", "I", "T", "H", " ", "c", " ", "A", "S", " ", "(", "S", "E", "L", "E", "C", "T", " ", "1", " ", "W", "H", "E", "R", "E", " ", "1", " ", "=", " ", "1", ")", " ", "S", "E", "L", "E", "C", "T", " ", "x", " ", "F", "R", "O", "M", " ", "c", "o", "n", "t", "e", "l", "e", ".", "c", "o", "n", "t", "e", "l", "e", "_", "o", "s", " ", "L", "I", "M", "I", "T", " ", "1">>

cenarios == {
    cenario3, cenario4, resposta_cercada,
    cenario_ano_retrasado, cenario_ano_antigo, cenario_ano_futuro,
    cenario_generica, cenario_generica_outra_view, cenario_generica_com_where,
    cenario_ano_seguinte, cenario_pendencia_aberta, cenario_descricao_pendencia,
    cenario_tabela_e_ano, cenario_coluna_e_ano, cenario_tabela_e_coluna,
    cenario_coluna_e_generica }

Candidatos(n) ==
    {juntar(ps) : ps \in UNION {[1..k -> DOMAIN pedacos] : k \in 0..n}}
        \cup cenarios

\* the year the clock shows when the module is imported
AnoDeImportacao == 2026

-----------------------------------------------------------------------------
(* detectar_tipo_pergunta *)

conversas_casuais == {
    <<"o", "i">>,
    <<"o", "l", "U+00E1">>,
    <<"o", "l", "a">>,
    <<"h", "e", "y">>,
    <<"h", "i">>,
    <<"h", "e", "l", "l", "o">>,
    <<"b", "o", "m", " ", "d", "i", "a">>,
    <<"b", "o", "a", " ", "t", "a", "r", "d", "e">>,
    <<"b", "o", "a", " ", "n", "o", "i", "t", "e">>,
    <<"b", "o", "m", " ", "d", "i", "a", "a">>,
    <<"t", "u", "d", "o", " ", "b", "e", "m">>,
    <<"c", "o", "m", "o", " ", "v", "a", "i">>,
    <<"c", "o", "m", "o", " ", "e", "s", "t", "U+00E1">>,
    <<"b", "e", "l", "e", "z", "a">>,
    <<"e", " ", "a", "U+00ED">>,
    <<"e", "a", "i">>,
    <<"o", "b", "r", "i", "g", "a", "d", "o">>,
    <<"o", "b", "r", "i", "g", "a", "d", "a">>,
    <<"v", "a", "l", "e", "u">>,
    <<"v", "l", "w">>,
    <<"b", "r", "i", "g", "a", "d", "U+00E3", "o">>,
    <<"b", "r", "i", "g", "a", "d", "o">>,
    <<"t", "c", "h", "a", "u">>,
    <<"a", "t", "U+00E9", " ", "l", "o", "g", "o">>,
    <<"f", "a", "l", "o", "u">>,
    <<"a", "t", "U+00E9", " ", "m", "a", "i", "s">>,
    <<"f", "l", "w">>,
    <<"l", "e", "g", "a", "l">>,
    <<"b", "a", "c", "a", "n", "a">>,
    <<"s", "h", "o", "w">>,
    <<"t", "o", "p">>,
    <<"m", "a", "s", "s", "a">>,
    <<"d", "a", "h", "o", "r", "a">> }

meta_keywords == {
    <<"q", "u", "e", "m", " ", "U+00E9", " ", "v", "o", "c", "U+00EA">>,
    <<"q", "u", "e", "m", " ", "v", "o", "c", "U+00EA", " ", "U+00E9">>,
    <<"q", "u", "e", "m", " ", "v", "o", "c", "e", " ", "U+00E9">>,
    <<"q", "u", "e", "m", " ", "v", "o", "c", "e", " ", "e">>,
    <<"o", " ", "q", "u", "e", " ", "v", "o", "c", "U+00EA", " ", "f", "a", "z">>,
    <<"o", " ", "q", "u", "e", " ", "v", "o", "c", "e", " ", "f", "a", "z">>,
    <<"p", "a", "r", "a", " ", "q", "u", "e", " ", "s", "e", "r", "v", "e">>,
    <<"s", "u", "a", " ", "f", "u", "n", "U+00E7", "U+00E3", "o">>,
    <<"s", "u", "a", " ", "i", "n", "d", "i", "v", "i", "d", "u", "a", "l", "i", "d", "a", "d", "e">>,
    <<"s", "e", " ", "a", "p", "r", "e", "s", "e", "n", "t", "e">>,
    <<"s", "e", "u", " ", "p", "a", "p", "e", "l">>,
    <<"s", "u", "a", " ", "e", "s", "p", "e", "c", "i", "a", "l", "i", "d", "a", "d", "e">>,
    <<"q", "u", "e", "m", " ", "U+00E9", "s">>,
    <<"q", "u", "a", "l", " ", "U+00E9", " ", "s", "e", "u", " ", "n", "o", "m", "e">>,
    <<"q", "u", "a", "l", " ", "e", " ", "s", "e", "u", " ", "n", "o", "m", "e">>,
    <<"o", " ", "q", "u", "e", " ", "v", "o", "c", "U+00EA", " ", "c", "o", "n", "s", "e", "g", "u", "e", " ", "f", "a", "z", "e", "r">>,
    <<"s", "u", "a", "s", " ", "c", "a", "p", "a", "c", "i", "d", "a", "d", "e", "s", " ", "e", "s", "p", "e", "c", "U+00ED", "f", "i", "c", "a", "s">>,
    <<"c", "o", "m", "o", " ", "v", "o", "c", "U+00EA", " ", "f", "u", "n", "c", "i", "o", "n", "a", " ", "i", "n", "t", "e", "r", "n", "a", "m", "e", "n", "t", "e">>,
    <<"q", "u", "e", " ", "t", "i", "p", "o", " ", "d", "e", " ", "p", "e", "r", "g", "u", "n", "t", "a">> }

dados_keywords == {
    <<"q", "u", "a", "n", "t", "a", "s">>,
    <<"q", "u", "a", "n", "t", "o", "s">>,
    <<"q", "u", "a", "n", "t", "o">>,
    <<"t", "o", "t", "a", "l">>,
    <<"s", "o", "m", "a">>,
    <<"m", "U+00E9", "d", "i", "a">>,
    <<"m", "e", "d", "i", "a">>,
    <<"m", "o", "s", "t", "r", "e">>,
    <<"l", "i", "s", "t", "e">>,
    <<"e", "x", "i", "b", "a">>,
    <<"b", "u", "s", "q", "u", "e">>,
    <<"e", "n", "c", "o", "n", "t", "r", "e">>,
    <<"p", "r", "o", "c", "u", "r", "e">>,
    <<"o", "s">>,
    <<"o", "s", "'", "s">>,
    <<"v", "i", "s", "i", "t", "a">>,
    <<"c", "l", "i", "e", "n", "t", "e">>,
    <<"v", "e", "n", "d", "e", "d", "o", "r">>,
    <<"t", "U+00E9", "c", "n", "i", "c", "o">>,
    <<"t", "e", "c", "n", "i", "c", "o">>,
    <<"p", "o", "i">>,
    <<"t", "a", "s", "k">>,
    <<"o", "b", "j", "e", "t", "i", "v", "o">>,
    <<"p", "r", "o", "s", "p", "e", "c", "U+00E7", "U+00E3", "o">>,
    <<"p", "r", "o", "s", "p", "e", "c", "c", "a", "o">>,
    <<"r", "e", "l", "a", "c", "i", "o", "n", "a", "m", "e", "n", "t", "o">>,
    <<"l", "e", "v", "a", "n", "t", "a", "m", "e", "n", "t", "o">>,
    <<"r", "a", "n", "k", "i", "n", "g">>,
    <<"t", "o", "p">>,
    <<"U+00FA", "l", "t", "i", "m", "o">>,
    <<"u", "l", "t", "i", "m", "a">>,
    <<"m", "U+00EA", "s">>,
    <<"m", "e", "s">>,
    <<"a", "n", "o">>,
    <<"p", "e", "r", "U+00ED", "o", "d", "o">>,
    <<"p", "e", "r", "i", "o", "d", "o">>,
    <<"s", "t", "a", "t", "u", "s">>,
    <<"c", "o", "n", "c", "l", "u", "U+00ED", "d", "a">>,
    <<"c", "o", "n", "c", "l", "u", "i", "d", "a">>,
    <<"p", "e", "n", "d", "e", "n", "t", "e">>,
    <<"f", "i", "n", "a", "l", "i", "z", "a", "d", "a">>,
    <<"c", "o", "m", "p", "a", "r", "a", "r">>,
    <<"c", "o", "m", "p", "a", "r", "a", "U+00E7", "U+00E3", "o">>,
    <<"c", "o", "m", "p", "a", "r", "a", "c", "a", "o">>,
    <<"d", "i", "f", "e", "r", "e", "n", "U+00E7", "a">>,
    <<"d", "i", "f", "e", "r", "e", "n", "c", "a">>,
    <<"r", "e", "s", "u", "m", "o">>,
    <<"d", "e", "t", "a", "l", "h", "e", "s">>,
    <<"i", "n", "f", "o", "r", "m", "a", "U+00E7", "U+00F5", "e", "s">>,
    <<"i", "n", "f", "o", "r", "m", "a", "c", "o", "e", "s">>,
    <<"r", "e", "l", "a", "t", "a">>,
    <<"f", "o", "i", " ", "f", "e", "i", "t", "o">>,
    <<"d", "i", "z">>,
    <<"s", "o", "b", "r", "e">>,
    <<"a", "p", "r", "o", "f", "u", "n", "d", "a", "r">>,
    <<"m", "a", "i", "s", " ", "s", "o", "b", "r", "e">>,
    <<"e", "s", "s", "a", " ", "o", "s">>,
    <<"d", "e", "s", "t", "a", " ", "o", "s">>,
    <<"d", "a", " ", "o", "s">>,
    <<"e", "s", "s", "a", " ", "v", "i", "s", "i", "t", "a">>,
    <<"e", "s", "s", "e", " ", "c", "l", "i", "e", "n", "t", "e">>,
    <<"c", "o", "n", "s", "e", "g", "u", "e">>,
    <<"p", "o", "d", "e">>,
    <<"p", "e", "n", "d", "U+00EA", "n", "c", "i", "a">>,
    <<"p", "e", "n", "d", "e", "n", "c", "i", "a", "s">> }

\* the classifier without the strip of line 834
detectar_tipo_pergunta_sem_strip(texto) ==
    LET pergunta_lower == lower(texto)
    IN  IF \E c \in conversas_casuais :
               startswith(pergunta_lower, c) \/ pergunta_lower = c
            THEN "casual"
        ELSE IF \E m \in meta_keywords : contem(pergunta_lower, m)
            THEN "meta"
        ELSE "dados"

\* the classifier with the meta test of line 964 before the casual test
detectar_tipo_pergunta_meta_primeiro(texto) ==
    LET pergunta_lower == strip(lower(texto))
    IN  IF \E m \in meta_keywords : contem(pergunta_lower, m)
            THEN "meta"
        ELSE IF \E c \in conversas_casuais :
               startswith(pergunta_lower, c) \/ pergunta_lower = c
            THEN "casual"
        ELSE "dados"

\* lines 833-968
detectar_tipo_pergunta(texto) ==
    LET pergunta_lower == strip(lower(texto))
    IN  IF \E c \in conversas_casuais :
               startswith(pergunta_lower, c) \/ pergunta_lower = c
            THEN "casual"
        ELSE IF \E m \in meta_keywords : contem(pergunta_lower, m)
            THEN "meta"
        ELSE IF \E d \in dados_keywords : contem(pergunta_lower, d)
            THEN "dados"
        ELSE "dados"

-----------------------------------------------------------------------------
(* What the outside world supplies: questions, what the language model
   answers, what the store answers *)

Perguntas == {
    <<"o", "i">>,
    <<" ", "B", "o", "m", " ", "d", "i", "a", "!", " ">>,
    <<"Q", "u", "e", "m", " ", "U+00E9", " ", "v", "o", "c", "U+00EA", "?">>,
    <<"Q", "u", "a", "n", "t", "a", "s", " ", "O", "S", " ", "p", "o", "r", " ", "o", "b", "j", "e", "t", "i", "v", "o", "?">>,
    <<"t", "o", "p", " ", "5", " ", "c", "l", "i", "e", "n", "t", "e", "s">>,
    <<"O", "i", ",", " ", "q", "u", "a", "n", "t", "a", "s", " ", "v", "i", "s", "i", "t", "a", "s", "?">>,
    <<"O", "l", "U+00E1", " ", "q", "u", "e", "m", " ", "U+00E9", " ", "v", "o", "c", "U+00EA">>,
    <<"q", "u", "e", "m", " ", "U+00E9", " ", "v", "o", "c", "U+00EA", " ", "e", " ", "q", "u", "a", "n", "t", "a", "s", " ", "O", "S">>,
    <<"x", "y", "z">> }

MaxPedacosLLM == 2
MaxLinhas == 2

\* how many connections the store grants before it refuses the next one
MaxConexoes == 1

\* text of the exception raised by the OpenAI client, of the one raised by
\* psycopg2, and the text of a successful completion
erro_llm == <<"t", "i", "m", "e", "o", "u", "t">>
erro_banco == <<"s", "y", "n", "t", "a", "x", " ", "e", "r", "r", "o", "r">>
erro_conexao == <<"c", "o", "n", "n", "e", "c", "t", "i", "o", "n", " ", "r", "e", "f", "u", "s", "e", "d">>
texto_llm == <<"R", "e", "s", "u", "m", "o">>

-----------------------------------------------------------------------------
(* gerar_sql_com_ia, executar_sql, analisar_resultados_com_ia,
   conversar_casualmente and responder_pergunta_livre *)

max_retries == 3

\* the loop of line 1223 with one more pass
tentativas_mais_uma == 1..(max_retries + 1)

\* line 1223: range(1, max_retries + 1)
tentativas == 1..max_retries

\* backoff_base = 0.8 s, counted in tenths of a second
backoff_base == 8

\* line 1264: the argument of time.sleep after the failure of pass t, in
\* tenths of a second (the float product is not modelled: 8 * t stands for
\* 0.8 * t)
espera(t) == backoff_base * t

\* the generator answers a statement when there is no client
marcador_sem_client_sql == <<"S", "E", "L", "E", "C", "T", " ", "x">>

marcador_sem_client == <<"-", "-", " ", "E", "r", "r", "o", ":", " ", "O", "p", "e", "n", "A", "I", " ", "n", "U+00E3", "o", " ", "c", "o", "n", "f", "i", "g", "u", "r", "a", "d", "a">>
marcador_esgotado(e) ==
    <<"-", "-", " ", "E", "r", "r", "o", " ", "a", "o", " ", "g", "e", "r", "a", "r", " ", "S", "Q", "L", " ", "a", "p", "U+00F3", "s", " ">> \o str(max_retries) \o <<" ", "t", "e", "n", "t", "a", "t", "i", "v", "a", "s", ":", " ">> \o e

\* lines 1247-1248: what gerar_sql_com_ia returns for a completion
sql_da_resposta(conteudo) ==
    strip(replace(replace(strip(conteudo), <<"BQ", "BQ", "BQ", "s", "q", "l">>, <<>>), <<"BQ", "BQ", "BQ">>, <<>>))

\* what gerar_sql_com_ia can return when a call succeeds
sqls_gerados == {sql_da_resposta(c) : c \in Candidatos(MaxPedacosLLM)}

\* lines 1505-1518: the first line of the fixed text
resposta_meta == <<"*", "*", "O", "l", "U+00E1", ",", " ", "J", "o", "U+00E3", "o", "!", " ", "E", "u", " ", "s", "o", "u", " ", "J", "o", "h", "n", " ", "U+1F44B", "*", "*">>

\* lines 1534-1539
resposta_rejeicao(motivo) ==
    IF contem(lower(motivo), <<"g", "e", "n", "U+00E9", "r", "i", "c", "a">>) \/ contem(motivo, <<"g", "e", "n", "U+00E9", "r", "i", "c", "a">>)
    THEN motivo \o <<"\n", "U+1F501", " ", "D", "I", "C", "A", ":", " ", "E", "s", "p", "e", "c", "i", "f", "i", "q", "u", "e", " ", "O", "S", ",", " ", "p", "e", "r", "U+00ED", "o", "d", "o", " ", "o", "u", " ", "o", "b", "j", "e", "t", "i", "v", "o", ".">>
    ELSE motivo

resposta_vazia(sql) ==
    <<"U+274C", " ", "N", "e", "n", "h", "u", "m", " ", "r", "e", "s", "u", "l", "t", "a", "d", "o", " ", "e", "n", "c", "o", "n", "t", "r", "a", "d", "o", ".", "\n", "Q", "u", "e", "r", "y", ":", "\n", "BQ", "BQ", "BQ", "s", "q", "l", "\n">> \o sql \o <<"\n", "BQ", "BQ", "BQ">>

resposta_analise(analise, sql, n) ==
    analise \o <<"\n", "\n", "-", "-", "-", "\n", "*", "*", "U+1F4CC", " ", "Q", "u", "e", "r", "y", " ", "e", "x", "e", "c", "u", "t", "a", "d", "a", ":", "*", "*", "\n", "BQ", "BQ", "BQ", "s", "q", "l", "\n">> \o sql
        \o <<"\n", "BQ", "BQ", "BQ", "\n", "*", "*", "U+1F4CA", " ", "L", "i", "n", "h", "a", "s", " ", "r", "e", "t", "o", "r", "n", "a", "d", "a", "s", ":", "*", "*", " ">> \o str(n)

\* line 1309 without the text of the store's exception
excecao_de_execucao_muda(e) == <<"E", "r", "r", "o", " ", "a", "o", " ", "e", "x", "e", "c", "u", "t", "a", "r", " ", "S", "Q", "L">>

\* line 1309: the message of the exception executar_sql raises
excecao_de_execucao(e) == <<"E", "r", "r", "o", " ", "a", "o", " ", "e", "x", "e", "c", "u", "t", "a", "r", " ", "S", "Q", "L", ":", " ">> \o e

\* line 1558 without its prefix
resposta_excecao_sem_prefixo(e) == e

\* line 1558: the reply for an exception caught by responder_pergunta_livre
resposta_excecao(e) == <<"U+274C", " ", "E", "r", "r", "o", ":", " ">> \o e

\* the test of line 1530 written with a prefix the markers never have
eh_marcador_de_erro_outro_prefixo(sql) == startswith(sql, <<"-", "-", "E", "r", "r", "o">>)

\* line 1530
eh_marcador_de_erro(sql) == startswith(sql, <<"-", "-", " ", "E", "r", "r", "o">>)

\* executar_sql called with the generator's text
sql_para_executar_bruto(bruto, validado) == bruto

\* line 1541: the argument of executar_sql
sql_para_executar(bruto, validado) == validado

Init ==
    /\ client \in BOOLEAN
    /\ ANO_ATUAL = AnoDeImportacao
    /\ pc = "ocioso"
    /\ pergunta = Nulo
    /\ tipo = Nulo
    /\ tentativa = 0
    /\ sql_bruto = Nulo
    /\ valido = FALSE
    /\ sql_validado = Nulo
    /\ revalidado = Nulo
    /\ sql_executado = Nulo
    /\ linhas = 0
    /\ chamadas = <<>>
    /\ desfecho = Nulo
    /\ resposta = Nulo
    /\ chamadas_llm = 0
    /\ esperas = <<>>
    /\ conexoes_abertas = 0
    /\ ano_relogio = AnoDeImportacao
    /\ chat_history = <<>>
    /\ history_for_ia = Nulo
    /\ argumentos = Nulo
    /\ retorno = Nulo

\* responder_pergunta_livre up to the call of gerar_sql_com_ia, and the
\* first lines of gerar_sql_com_ia
Receber ==
    /\ pc = "ocioso"
    /\ \E p \in Perguntas :
          LET t == detectar_tipo_pergunta(p)
          IN  /\ pergunta' = p
              /\ tipo' = t
              /\ IF t = "casual"
                    THEN /\ pc' = "casual"
                         /\ UNCHANGED <<tentativa, sql_bruto, chamadas, desfecho, resposta>>
                 ELSE IF t = "meta"
                    THEN /\ pc' = "fim"
                         /\ desfecho' = "meta"
                         /\ resposta' = resposta_meta
                         /\ UNCHANGED <<tentativa, sql_bruto, chamadas>>
                 ELSE /\ chamadas' = <<"gerar">>
                      /\ UNCHANGED <<desfecho, resposta>>
                      /\ IF client
                            THEN /\ pc' = "gerando"
                                 /\ tentativa' = 1
                                 /\ UNCHANGED sql_bruto
                            ELSE /\ pc' = "gerado"
                                 /\ sql_bruto' = marcador_sem_client
                                 /\ UNCHANGED tentativa
    /\ UNCHANGED <<client, ANO_ATUAL, valido, sql_validado, revalidado,
                   sql_executado, linhas, chamadas_llm, esperas, conexoes_abertas>>
    /\ UNCHANGED fora_do_pedido

\* conversar_casualmente
Conversar ==
    /\ pc = "casual"
    /\ \/ /\ ~client
          /\ resposta' = <<"U+274C", " ", "O", "p", "e", "n", "A", "I", " ", "n", "U+00E3", "o", " ", "c", "o", "n", "f", "i", "g", "u", "r", "a", "d", "a">>
          /\ desfecho' = "casual_sem_client"
          /\ UNCHANGED chamadas_llm
       \/ /\ client
          /\ resposta' = texto_llm
          /\ desfecho' = "casual"
          /\ chamadas_llm' = chamadas_llm + 1
       \/ /\ client
          /\ resposta' = resposta_excecao(erro_llm)
          /\ desfecho' = "erro_casual"
          /\ chamadas_llm' = chamadas_llm + 1
    /\ pc' = "fim"
    /\ UNCHANGED <<client, ANO_ATUAL, pergunta, tipo, tentativa, sql_bruto, valido,
                   sql_validado, revalidado, sql_executado, linhas, chamadas,
                   esperas, conexoes_abertas>>
    /\ UNCHANGED fora_do_pedido

\* one pass of the retry loop of gerar_sql_com_ia: the call is made; the
\* completion arrives and is returned, or the call raises, the loop sleeps
\* and then goes on or, after the last pass, returns the marker
TentarGerar ==
    /\ pc = "gerando"
    /\ chamadas_llm' = chamadas_llm + 1
    /\ \/ \E sql \in sqls_gerados :
             /\ sql_bruto' = sql
             /\ tentativa' = 0
             /\ pc' = "gerado"
             /\ UNCHANGED esperas
       \/ /\ tentativa + 1 \in tentativas
          /\ esperas' = Append(esperas, espera(tentativa))
          /\ tentativa' = tentativa + 1
          /\ UNCHANGED <<sql_bruto, pc>>
       \/ /\ tentativa + 1 \notin tentativas
          /\ esperas' = Append(esperas, espera(tentativa))
          /\ sql_bruto' = marcador_esgotado(erro_llm)
          /\ tentativa' = 0
          /\ pc' = "gerado"
    /\ UNCHANGED <<client, ANO_ATUAL, pergunta, tipo, valido, sql_validado, revalidado,
                   sql_executado, linhas, chamadas, desfecho, resposta,
                   conexoes_abertas>>
    /\ UNCHANGED fora_do_pedido

\* lines 1530-1539: the error marker, then validar_e_corrigir_sql
ValidarGerado ==
    /\ pc = "gerado"
    /\ IF eh_marcador_de_erro(sql_bruto)
          THEN /\ resposta' = <<"U+274C", " ">> \o sql_bruto
               /\ desfecho' = "erro_geracao"
               /\ pc' = "fim"
               /\ UNCHANGED <<valido, sql_validado, chamadas>>
          ELSE /\ chamadas' = Append(chamadas, "validar")
               /\ \E r \in validar_e_corrigir_sql(sql_bruto, ANO_ATUAL) :
                     /\ valido' = r[1]
                     /\ sql_validado' = r[2]
                     /\ IF r[1]
                           THEN /\ pc' = "validado"
                                /\ UNCHANGED <<desfecho, resposta>>
                           ELSE /\ resposta' = resposta_rejeicao(r[2])
                                /\ desfecho' = "rejeitado"
                                /\ pc' = "fim"
    /\ UNCHANGED <<client, ANO_ATUAL, pergunta, tipo, tentativa, sql_bruto, revalidado,
                   sql_executado, linhas, chamadas_llm, esperas, conexoes_abertas>>
    /\ UNCHANGED fora_do_pedido

\* line 1541 with executar_sql, and lines 1543-1546, 1556-1558.
\* psycopg2.connect raises, or it returns a connection; the with block of
\* line 1274 ends the transaction when it is left and does not close the
\* connection, and executar_sql has no call of close: the connection stays
\* open when the call returns or raises
Executar ==
    /\ pc = "validado"
    /\ chamadas' = Append(chamadas, "executar")
    /\ sql_executado' = sql_para_executar(sql_bruto, sql_validado)
    /\ \/ /\ resposta' = resposta_excecao(excecao_de_execucao(erro_conexao))
          /\ desfecho' = "erro_execucao"
          /\ pc' = "fim"
          /\ UNCHANGED <<linhas, conexoes_abertas>>
       \/ /\ conexoes_abertas < MaxConexoes
          /\ conexoes_abertas' = conexoes_abertas + 1
          /\ \/ /\ resposta' = resposta_excecao(excecao_de_execucao(erro_banco))
                /\ desfecho' = "erro_execucao"
                /\ pc' = "fim"
                /\ UNCHANGED linhas
             \/ /\ resposta' = resposta_vazia(sql_validado)
                /\ desfecho' = "vazio"
                /\ pc' = "fim"
                /\ linhas' = 0
             \/ \E n \in 1..MaxLinhas :
                   /\ linhas' = n
                   /\ pc' = "executado"
                   /\ UNCHANGED <<desfecho, resposta>>
    /\ UNCHANGED <<client, ANO_ATUAL, pergunta, tipo, tentativa, sql_bruto, valido,
                   sql_validado, revalidado, chamadas_llm, esperas>>
    /\ UNCHANGED fora_do_pedido

\* lines 1548-1555 with analisar_resultados_com_ia
Analisar ==
    /\ pc = "executado"
    /\ chamadas' = Append(chamadas, "analisar")
    /\ \/ /\ ~client
          /\ resposta' = resposta_analise(<<"E", "r", "r", "o", ":", " ", "O", "p", "e", "n", "A", "I", " ", "n", "U+00E3", "o", " ", "c", "o", "n", "f", "i", "g", "u", "r", "a", "d", "a">>,
                                          sql_validado, linhas)
          /\ desfecho' = "erro_analise"
          /\ UNCHANGED chamadas_llm
       \/ /\ client
          /\ resposta' = resposta_analise(texto_llm, sql_validado, linhas)
          /\ desfecho' = "analisado"
          /\ chamadas_llm' = chamadas_llm + 1
       \/ /\ client
          /\ resposta' = resposta_analise(<<"E", "r", "r", "o", " ", "a", "o", " ", "a", "n", "a", "l", "i", "s", "a", "r", ":", " ">> \o erro_llm,
                                          sql_validado, linhas)
          /\ desfecho' = "erro_analise"
          /\ chamadas_llm' = chamadas_llm + 1
    /\ pc' = "fim"
    /\ UNCHANGED <<client, ANO_ATUAL, pergunta, tipo, tentativa, sql_bruto, valido,
                   sql_validado, revalidado, sql_executado, linhas, esperas,
                   conexoes_abertas>>
    /\ UNCHANGED fora_do_pedido

\* the runtime reclaims a connection object no finished call refers to any
\* more: only then is the connection closed
Finalizar ==
    /\ conexoes_abertas > 0
    /\ pc \in {"ocioso", "executado", "fim"}
    /\ conexoes_abertas' = conexoes_abertas - 1
    /\ UNCHANGED <<client, ANO_ATUAL, pc, pergunta, tipo, tentativa, sql_bruto, valido,
                   sql_validado, revalidado, sql_executado, linhas, chamadas,
                   desfecho, resposta, chamadas_llm, esperas>>
    /\ UNCHANGED fora_do_pedido

\* the caller asks the next question: the locals of the finished call are gone
NovaPergunta ==
    /\ pc = "fim"
    /\ pc' = "ocioso"
    /\ pergunta' = Nulo
    /\ tipo' = Nulo
    /\ sql_bruto' = Nulo
    /\ valido' = FALSE
    /\ sql_validado' = Nulo
    /\ sql_executado' = Nulo
    /\ linhas' = 0
    /\ chamadas' = <<>>
    /\ desfecho' = Nulo
    /\ resposta' = Nulo
    /\ chamadas_llm' = 0
    /\ esperas' = <<>>
    /\ UNCHANGED <<client, ANO_ATUAL, tentativa, revalidado, conexoes_abertas>>
    /\ UNCHANGED fora_do_pedido

Next ==
    \/ Receber
    \/ Conversar
    \/ TentarGerar
    \/ ValidarGerado
    \/ Executar
    \/ Analisar
    \/ Finalizar
    \/ NovaPergunta

Spec == Init /\ [][Next]_vars

\* the interpreter goes on executing the loop of line 1223 and, when the
\* loop has returned the marker of line 1266, the return of lines 1530-1531
SpecJusta ==
    /\ Spec
    /\ WF_vars(TentarGerar)
    /\ WF_vars(pc = "gerado" /\ eh_marcador_de_erro(sql_bruto) /\ ValidarGerado)

-----------------------------------------------------------------------------
(* The validator on its own: validar_e_corrigir_sql applied to a text, and
   applied once more to the corrected SQL it returned *)

InitValidacao ==
    /\ client = TRUE
    /\ ANO_ATUAL = AnoDeImportacao
    /\ pc = "v_entrada"
    /\ pergunta = Nulo
    /\ tipo = Nulo
    /\ tentativa = 0
    /\ sql_bruto \in Candidatos(MaxPedacos)
    /\ valido = FALSE
    /\ sql_validado = Nulo
    /\ revalidado = Nulo
    /\ sql_executado = Nulo
    /\ linhas = 0
    /\ chamadas = <<>>
    /\ desfecho = Nulo
    /\ resposta = Nulo
    /\ chamadas_llm = 0
    /\ esperas = <<>>
    /\ conexoes_abertas = 0
    /\ ano_relogio = AnoDeImportacao
    /\ chat_history = <<>>
    /\ history_for_ia = Nulo
    /\ argumentos = Nulo
    /\ retorno = Nulo

ChamarValidador ==
    /\ pc = "v_entrada"
    /\ \E r \in validar_e_corrigir_sql(sql_bruto, ANO_ATUAL) :
          /\ valido' = r[1]
          /\ sql_validado' = r[2]
    /\ pc' = "v_saida"
    /\ UNCHANGED <<client, ANO_ATUAL, pergunta, tipo, tentativa, sql_bruto, revalidado,
                   sql_executado, linhas, chamadas, desfecho, resposta,
                   chamadas_llm, esperas, conexoes_abertas>>
    /\ UNCHANGED fora_do_pedido

Revalidar ==
    /\ pc = "v_saida"
    /\ valido
    /\ \E r \in validar_e_corrigir_sql(sql_validado, ANO_ATUAL) : revalidado' = r
    /\ pc' = "v_revalidado"
    /\ UNCHANGED <<client, ANO_ATUAL, pergunta, tipo, tentativa, sql_bruto, valido,
                   sql_validado, sql_executado, linhas, chamadas, desfecho,
                   resposta, chamadas_llm, esperas, conexoes_abertas>>
    /\ UNCHANGED fora_do_pedido

NextValidacao == ChamarValidador \/ Revalidar

SpecValidacao == InitValidacao /\ [][NextValidacao]_vars

-----------------------------------------------------------------------------
(* The classifier on its own: detectar_tipo_pergunta applied to an utterance *)

MaxPalavras == 2

palavras == <<
    <<"o", "i">>,
    <<" ", "B", "o", "m", " ", "D", "i", "a", " ">>,
    <<"T", "O", "P">>,
    <<" ">>,
    <<"q", "u", "e", "m", " ", "U+00E9", " ", "v", "o", "c", "U+00EA">>,
    <<" ", "Q", "u", "a", "l", " ", "U+00C9", " ", "S", "e", "u", " ", "N", "o", "m", "e", "?">>,
    <<" ", "q", "u", "a", "n", "t", "a", "s", " ", "v", "i", "s", "i", "t", "a", "s">>,
    <<" ", "c", "l", "i", "e", "n", "t", "e", "s">>,
    <<"x", "y", "z">>,
    <<"!">> >>

RECURSIVE juntar_palavras(_)
juntar_palavras(ps) ==
    IF ps = <<>> THEN <<>> ELSE palavras[Head(ps)] \o juntar_palavras(Tail(ps))

Utterances(n) ==
    {juntar_palavras(ps) : ps \in UNION {[1..k -> DOMAIN palavras] : k \in 0..n}}

InitClassificacao ==
    /\ client = TRUE
    /\ ANO_ATUAL = AnoDeImportacao
    /\ pc = "c_entrada"
    /\ pergunta \in Utterances(MaxPalavras)
    /\ tipo = Nulo
    /\ tentativa = 0
    /\ sql_bruto = Nulo
    /\ valido = FALSE
    /\ sql_validado = Nulo
    /\ revalidado = Nulo
    /\ sql_executado = Nulo
    /\ linhas = 0
    /\ chamadas = <<>>
    /\ desfecho = Nulo
    /\ resposta = Nulo
    /\ chamadas_llm = 0
    /\ esperas = <<>>
    /\ conexoes_abertas = 0
    /\ ano_relogio = AnoDeImportacao
    /\ chat_history = <<>>
    /\ history_for_ia = Nulo
    /\ argumentos = Nulo
    /\ retorno = Nulo

Classificar ==
    /\ pc = "c_entrada"
    /\ tipo' = detectar_tipo_pergunta(pergunta)
    /\ pc' = "c_saida"
    /\ UNCHANGED <<client, ANO_ATUAL, pergunta, tentativa, sql_bruto, valido,
                   sql_validado, revalidado, sql_executado, linhas, chamadas,
                   desfecho, resposta, chamadas_llm, esperas, conexoes_abertas>>
    /\ UNCHANGED fora_do_pedido

NextClassificacao == Classificar

SpecClassificacao == InitClassificacao /\ [][NextClassificacao]_vars


-----------------------------------------------------------------------------
(* The validator in a process that keeps running while the calendar year
   changes: ANO_ATUAL was read at import (line 55) and is not read again *)

MaxViradas == 1

InitRelogio ==
    /\ client = TRUE
    /\ ANO_ATUAL = AnoDeImportacao
    /\ pc = "v_entrada"
    /\ pergunta = Nulo
    /\ tipo = Nulo
    /\ tentativa = 0
    /\ sql_bruto = cenario4
    /\ valido = FALSE
    /\ sql_validado = Nulo
    /\ revalidado = Nulo
    /\ sql_executado = Nulo
    /\ linhas = 0
    /\ chamadas = <<>>
    /\ desfecho = Nulo
    /\ resposta = Nulo
    /\ chamadas_llm = 0
    /\ esperas = <<>>
    /\ conexoes_abertas = 0
    /\ ano_relogio = AnoDeImportacao
    /\ chat_history = <<>>
    /\ history_for_ia = Nulo
    /\ argumentos = Nulo
    /\ retorno = Nulo

\* midnight of 31 December passes
ViradaDeAno ==
    /\ ano_relogio < AnoDeImportacao + MaxViradas
    /\ ano_relogio' = ano_relogio + 1
    /\ UNCHANGED <<client, ANO_ATUAL, pc, pergunta, tipo, tentativa, sql_bruto, valido,
                   sql_validado, revalidado, sql_executado, linhas, chamadas,
                   desfecho, resposta, chamadas_llm, esperas, conexoes_abertas,
                   chat_history, history_for_ia, argumentos, retorno>>

\* the caller hands the next text to the validator
ProximaValidacao ==
    /\ pc = "v_saida"
    /\ pc' = "v_entrada"
    /\ sql_bruto' \in Candidatos(MaxPedacosLLM)
    /\ valido' = FALSE
    /\ sql_validado' = Nulo
    /\ UNCHANGED <<client, ANO_ATUAL, pergunta, tipo, tentativa, revalidado,
                   sql_executado, linhas, chamadas, desfecho, resposta,
                   chamadas_llm, esperas, conexoes_abertas, ano_relogio,
                   chat_history, history_for_ia, argumentos, retorno>>

NextRelogio ==
    \/ ViradaDeAno
    \/ ChamarValidador
    \/ ProximaValidacao

SpecRelogio == InitRelogio /\ [][NextRelogio]_vars

-----------------------------------------------------------------------------
(* The structure analisar_resultados_com_ia builds from a result set for the
   language model (lines 1329-1348).  A value of a row is a pair
   <<type, number>>: the Python type psycopg2 gave it and a number standing
   for its content. *)

Tipos == {"int", "float", "Decimal", "bool", "str", "NoneType"}

\* isinstance(val, (int, float)): bool is a subclass of int, Decimal is not
\* a subclass of either
isinstance_int_float(val) == val[1] \in {"int", "float", "bool"}

Menor(a, b) == IF a <= b THEN a ELSE b

\* the dict that assignments d[cols[i]] = row[i], for the i of the set is
\* in increasing order, leave behind
dict_de(cols, row, is) ==
    [c \in {cols[i] : i \in is} |->
        row[CHOOSE i \in is : cols[i] = c /\ \A j \in is : cols[j] = c => j <= i]]

\* zip(colunas, row) stops at the shorter of the two
indices_do_zip(cols, row) == 1..Menor(Len(cols), Len(row))

\* lines 1329-1336
metricas_numericas(colunas, linhas_) ==
    IF Len(linhas_) = 1
    THEN dict_de(colunas, linhas_[1],
                 {i \in indices_do_zip(colunas, linhas_[1]) :
                     isinstance_int_float(linhas_[1][i])})
    ELSE << >>

\* linhas[:50] without the slice
primeiras_todas(linhas_) == linhas_

\* linhas[:50]
primeiras(linhas_) == SubSeq(linhas_, 1, Menor(50, Len(linhas_)))

\* lines 1338-1341
preview_linhas(colunas, linhas_) ==
    [k \in DOMAIN primeiras(linhas_) |->
        dict_de(colunas, linhas_[k], indices_do_zip(colunas, linhas_[k]))]

\* lines 1343-1348
resultado_estruturado(colunas, linhas_) ==
    [colunas |-> colunas,
     total_linhas |-> Len(linhas_),
     metricas_numericas |-> metricas_numericas(colunas, linhas_),
     preview_linhas |-> preview_linhas(colunas, linhas_)]

MaxLinhasResultado == 52

\* result sets of executar_sql: one row of two columns with values of every
\* type, and n rows of a number and a text, row k carrying the number k
Resultados ==
    {[colunas |-> <<"total", "nome">>, linhas |-> <<<<<<t1, 7>>, <<t2, 9>>>>>>] :
        t1 \in Tipos, t2 \in Tipos}
    \cup
    {[colunas |-> <<"total", "nome">>,
      linhas |-> [k \in 1..n |-> <<<<"int", k>>, <<"str", k>>>>]] :
        n \in 0..MaxLinhasResultado}

InitAnalise ==
    /\ client = TRUE
    /\ ANO_ATUAL = AnoDeImportacao
    /\ pc = "a_entrada"
    /\ pergunta = Nulo
    /\ tipo = Nulo
    /\ tentativa = 0
    /\ sql_bruto = Nulo
    /\ valido = FALSE
    /\ sql_validado = Nulo
    /\ revalidado = Nulo
    /\ sql_executado = Nulo
    /\ linhas = 0
    /\ chamadas = <<>>
    /\ desfecho = Nulo
    /\ resposta = Nulo
    /\ chamadas_llm = 0
    /\ esperas = <<>>
    /\ conexoes_abertas = 0
    /\ ano_relogio = AnoDeImportacao
    /\ chat_history = <<>>
    /\ history_for_ia = Nulo
    /\ argumentos \in Resultados
    /\ retorno = Nulo

\* analisar_resultados_com_ia up to the structure it serialises
MontarResultado ==
    /\ pc = "a_entrada"
    /\ retorno' = resultado_estruturado(argumentos.colunas, argumentos.linhas)
    /\ pc' = "a_saida"
    /\ UNCHANGED <<client, ANO_ATUAL, pergunta, tipo, tentativa, sql_bruto, valido,
                   sql_validado, revalidado, sql_executado, linhas, chamadas,
                   desfecho, resposta, chamadas_llm, esperas, conexoes_abertas,
                   ano_relogio, chat_history, history_for_ia, argumentos>>

NextAnalise == MontarResultado

SpecAnalise == InitAnalise /\ [][NextAnalise]_vars

-----------------------------------------------------------------------------
(* _formatar_historico (lines 104-138).  A turn is a record with the keys
   role, text and content; Nulo stands for a text that is missing or None,
   "ausente" for a missing role.  The argument is a record: ausente is TRUE
   when the caller passed None, and history is the list otherwise. *)

max_msgs == 12
max_chars == 4000

\* history[-max_msgs:] without the slice
ultimas_todas(history) == history

\* line 122: history[-max_msgs:]
ultimas(history) ==
    IF Len(history) <= max_msgs THEN history
    ELSE SubSeq(history, Len(history) - max_msgs + 1, Len(history))

vazio(t) == t = Nulo \/ t = <<>>

\* line 127: msg.get("text") or msg.get("content") or ""
texto_da_msg(msg) ==
    IF ~vazio(msg.text) THEN msg.text
    ELSE IF ~vazio(msg.content) THEN msg.content
    ELSE <<>>

\* lines 126 and 131
prefixo_da_msg(msg) ==
    IF (IF msg.role = "ausente" THEN "user" ELSE msg.role) = "user"
    THEN <<"U", "s", "u", "U+00E1", "r", "i", "o">> ELSE <<"J", "o", "h", "n">>

\* lines 125-132: the lines of the turns whose text is not empty
RECURSIVE linhas_do_historico(_)
linhas_do_historico(msgs) ==
    IF msgs = <<>> THEN <<>>
    ELSE LET msg == Head(msgs)
             resto == linhas_do_historico(Tail(msgs))
         IN  IF vazio(texto_da_msg(msg)) THEN resto
             ELSE <<prefixo_da_msg(msg) \o <<":", " ">> \o texto_da_msg(msg)>> \o resto

\* "\n".join(linhas)
RECURSIVE join_nl(_)
join_nl(ls) ==
    IF ls = <<>> THEN <<>>
    ELSE IF Len(ls) = 1 THEN ls[1]
    ELSE ls[1] \o <<"\n">> \o join_nl(Tail(ls))

\* _formatar_historico(history) with the default max_msgs and max_chars
formatar_historico(h) ==
    IF h.ausente \/ h.history = <<>> THEN <<>>
    ELSE LET historico == join_nl(linhas_do_historico(ultimas(h.history)))
         IN  IF Len(historico) > max_chars
             THEN SubSeq(historico, Len(historico) - max_chars + 1, Len(historico))
             ELSE historico

\* a long answer: n characters, the digits in turn
texto_longo(n) == [i \in 1..n |-> digitos[(i % 10) + 1]]

Turno(role, text) == [role |-> role, text |-> text, content |-> Nulo]

\* sixteen turns of a conversation: short and long ones, two with empty
\* text, one that carries its text under the key content, one without role
falas == <<
    Turno("user", <<"p", "r", "i", "m", "e", "i", "r", "a", " ", "p", "e", "r", "g", "u", "n", "t", "a">>),
    Turno("assistant", <<"p", "r", "i", "m", "e", "i", "r", "a", " ", "r", "e", "s", "p", "o", "s", "t", "a">>),
    Turno("user", <<>>),
    Turno("assistant", <<"A">> \o texto_longo(1500)),
    Turno("user", <<"q", "u", "a", "n", "t", "a", "s", " ", "v", "i", "s", "i", "t", "a", "s", "?">>),
    [role |-> "assistant", text |-> Nulo, content |-> <<"f", "o", "r", "a", "m", " ", "1", "2">>],
    Turno("user", <<"B">> \o texto_longo(1500)),
    Turno("assistant", <<"o", "k">>),
    Turno("ausente", <<"e", " ", "a", "s", " ", "O", "S", "?">>),
    Turno("assistant", <<"C">> \o texto_longo(1500)),
    Turno("user", Nulo),
    Turno("assistant", <<"4", "0", " ", "O", "S">>),
    Turno("user", <<"t", "o", "p", " ", "5", " ", "c", "l", "i", "e", "n", "t", "e", "s">>),
    Turno("assistant", <<"l", "i", "s", "t", "a">>),
    Turno("user", <<"o", "b", "r", "i", "g", "a", "d", "o">>),
    Turno("assistant", <<"d", "e", " ", "n", "a", "d", "a">>) >>

MaxTurnos == 16

\* the conversation so far: the turns above, said over again when it goes on
conversa == [i \in 1..MaxTurnos |-> falas[((i - 1) % Len(falas)) + 1]]

\* the histories a caller hands over: none, or a stretch of the conversation
Historicos ==
    {[ausente |-> TRUE, history |-> <<>>]}
        \cup {[ausente |-> FALSE, history |-> SubSeq(conversa, a, b)] :
                  a \in 1..MaxTurnos, b \in 0..MaxTurnos}

InitHistorico ==
    /\ client = TRUE
    /\ ANO_ATUAL = AnoDeImportacao
    /\ pc = "h_entrada"
    /\ pergunta = Nulo
    /\ tipo = Nulo
    /\ tentativa = 0
    /\ sql_bruto = Nulo
    /\ valido = FALSE
    /\ sql_validado = Nulo
    /\ revalidado = Nulo
    /\ sql_executado = Nulo
    /\ linhas = 0
    /\ chamadas = <<>>
    /\ desfecho = Nulo
    /\ resposta = Nulo
    /\ chamadas_llm = 0
    /\ esperas = <<>>
    /\ conexoes_abertas = 0
    /\ ano_relogio = AnoDeImportacao
    /\ chat_history = <<>>
    /\ history_for_ia = Nulo
    /\ argumentos \in Historicos
    /\ retorno = Nulo

FormatarHistorico ==
    /\ pc = "h_entrada"
    /\ retorno' = formatar_historico(argumentos)
    /\ pc' = "h_saida"
    /\ UNCHANGED <<client, ANO_ATUAL, pergunta, tipo, tentativa, sql_bruto, valido,
                   sql_validado, revalidado, sql_executado, linhas, chamadas,
                   desfecho, resposta, chamadas_llm, esperas, conexoes_abertas,
                   ano_relogio, chat_history, history_for_ia, argumentos>>

NextHistorico == FormatarHistorico

SpecHistorico == InitHistorico /\ [][NextHistorico]_vars

-----------------------------------------------------------------------------
(* _montar_bloco_filtros (lines 1104-1161).  A date is a triple
   <<day, month, year>>.  The filters are a record: ausente is TRUE when the
   caller passed None or an empty dict; data_inicio and data_fim are texts,
   Nulo for a key that is missing or empty.  Of each of the three blocks of
   guidance the model keeps the sentence that tells it from the others. *)

bissexto(y) == (y % 4 = 0 /\ y % 100 # 0) \/ y % 400 = 0

dias_do_mes(m, y) ==
    IF m = 2 THEN (IF bissexto(y) THEN 29 ELSE 28)
    ELSE IF m \in {4, 6, 9, 11} THEN 30 ELSE 31

data_valida(d) ==
    /\ d[3] \in 1..9999
    /\ d[2] \in 1..12
    /\ d[1] \in 1..dias_do_mes(d[2], d[3])

\* n written with at least w digits: %02d, %04d
com_zeros(n, w) ==
    LET ds == str(n)
    IN  [i \in 1..(w - Len(ds)) |-> "0"] \o ds

\* date.strftime("%d/%m/%Y") of src/app.py
strftime_dmy(d) ==
    com_zeros(d[1], 2) \o <<"/">> \o com_zeros(d[2], 2) \o <<"/">> \o com_zeros(d[3], 4)

so_digitos(t) == t # <<>> /\ \A i \in DOMAIN t : t[i] \in Imagem(digitos)

depois_do_primeiro(s, c) ==
    SubSeq(s, Len(antes_do_primeiro(s, c)) + 2, Len(s))

\* dt.datetime.strptime(txt, "%d/%m/%Y").date(): the date, or Nulo when
\* strptime raises ValueError
strptime_dmy(txt) ==
    LET dd == antes_do_primeiro(txt, "/")
        resto == depois_do_primeiro(txt, "/")
        mm == antes_do_primeiro(resto, "/")
        yyyy == depois_do_primeiro(resto, "/")
    IN  IF /\ so_digitos(dd) /\ Len(dd) <= 2
           /\ so_digitos(mm) /\ Len(mm) <= 2
           /\ so_digitos(yyyy) /\ Len(yyyy) = 4
           /\ data_valida(<<int(dd), int(mm), int(yyyy)>>)
        THEN <<int(dd), int(mm), int(yyyy)>>
        ELSE Nulo

\* the day after, computed without the ends of months
mais_um_dia_sem_virada(d) == <<d[1] + 1, d[2], d[3]>>

\* df + dt.timedelta(days=1)
mais_um_dia(d) ==
    IF d[1] < dias_do_mes(d[2], d[3]) THEN <<d[1] + 1, d[2], d[3]>>
    ELSE IF d[2] < 12 THEN <<1, d[2] + 1, d[3]>>
    ELSE <<1, 1, d[3] + 1>>

\* date.isoformat()
isoformat(d) ==
    com_zeros(d[3], 4) \o <<"-">> \o com_zeros(d[2], 2) \o <<"-">> \o com_zeros(d[1], 2)

bloco_sem_filtros ==
    <<"-", " ", "S", "e", "m", "p", "r", "e", " ", "i", "n", "f", "i", "r", "a", " ", "o", " ", "p", "e", "r", "U+00ED", "o", "d", "o", " ", "a", " ", "p", "a", "r", "t", "i", "r", " ", "d", "a", " ", "p", "e", "r", "g", "u", "n", "t", "a", " ", "d", "o", " ", "u", "s", "u", "U+00E1", "r", "i", "o", ".">>

bloco_sem_datas ==
    <<"-", " ", "I", "n", "f", "i", "r", "a", " ", "p", "e", "r", "U+00ED", "o", "d", "o", " ", "a", "p", "e", "n", "a", "s", " ", "a", " ", "p", "a", "r", "t", "i", "r", " ", "d", "a", " ", "p", "e", "r", "g", "u", "n", "t", "a", " ", "o", "u", " ", "u", "s", "e", " ", "r", "e", "g", "r", "a", "s", " ", "t", "e", "m", "p", "o", "r", "a", "i", "s", " ", "g", "e", "r", "a", "i", "s", ".">>

bloco_periodo(di_iso, df_plus1_iso) ==
    <<"-", " ", "P", "e", "r", "U+00ED", "o", "d", "o", " ", "p", "a", "d", "r", "U+00E3", "o", ":", " ", "d", "e", " ", "'">> \o di_iso \o <<"'", " ", "(", "i", "n", "c", "l", "u", "s", "i", "v", "e", ")", " ", "a", "t", "U+00E9", " ", "'">>
        \o df_plus1_iso \o <<"'", " ", "(", "e", "x", "c", "l", "u", "s", "i", "v", "o", ")", ".">>

\* lines 1111-1161; date + timedelta raises OverflowError past year 9999
montar_bloco_filtros(filters) ==
    IF filters.ausente THEN bloco_sem_filtros
    ELSE IF filters.data_inicio = Nulo \/ filters.data_fim = Nulo THEN bloco_sem_datas
    ELSE LET di == strptime_dmy(filters.data_inicio)
             df == strptime_dmy(filters.data_fim)
         IN  IF di # Nulo /\ df # Nulo /\ data_valida(mais_um_dia(df))
             THEN bloco_periodo(isoformat(di), isoformat(mais_um_dia(df)))
             ELSE bloco_periodo(filters.data_inicio, filters.data_fim)

MaxDias == 2

\* first days the dashboard can send, and last days: the first and the last
\* MaxDias days of months of every length, in leap years and others
DatasDeInicio == {<<1, 10, 2025>>, <<15, 2, 2024>>}

DatasDeFim ==
    {<<d, m, y>> : d \in 1..MaxDias, m \in {1, 12}, y \in {2025}}
    \cup {<<dias_do_mes(m, y) - k, m, y>> :
             k \in 0..(MaxDias - 1), m \in {2, 4, 10, 12}, y \in {1900, 2000, 2024, 2025}}

\* texts strptime refuses
DatasInvalidas == {<<"3", "1", "/", "0", "2", "/", "2", "0", "2", "5">>, <<"2", "9", "/", "0", "2", "/", "2", "0", "2", "5">>, <<"2", "0", "2", "5", "-", "1", "0", "-", "3", "1">>, <<"0", "0", "/", "1", "0", "/", "2", "0", "2", "5">>}

Filtros ==
    {[ausente |-> TRUE, data_inicio |-> Nulo, data_fim |-> Nulo]}
    \cup {[ausente |-> FALSE, data_inicio |-> i, data_fim |-> f] :
             i \in {strftime_dmy(d) : d \in DatasDeInicio} \cup {Nulo, <<"3", "1", "/", "0", "2", "/", "2", "0", "2", "5">>},
             f \in {strftime_dmy(d) : d \in DatasDeFim} \cup DatasInvalidas \cup {Nulo}}

InitFiltros ==
    /\ client = TRUE
    /\ ANO_ATUAL = AnoDeImportacao
    /\ pc = "f_entrada"
    /\ pergunta = Nulo
    /\ tipo = Nulo
    /\ tentativa = 0
    /\ sql_bruto = Nulo
    /\ valido = FALSE
    /\ sql_validado = Nulo
    /\ revalidado = Nulo
    /\ sql_executado = Nulo
    /\ linhas = 0
    /\ chamadas = <<>>
    /\ desfecho = Nulo
    /\ resposta = Nulo
    /\ chamadas_llm = 0
    /\ esperas = <<>>
    /\ conexoes_abertas = 0
    /\ ano_relogio = AnoDeImportacao
    /\ chat_history = <<>>
    /\ history_for_ia = Nulo
    /\ argumentos \in Filtros
    /\ retorno = Nulo

MontarBlocoFiltros ==
    /\ pc = "f_entrada"
    /\ retorno' = montar_bloco_filtros(argumentos)
    /\ pc' = "f_saida"
    /\ UNCHANGED <<client, ANO_ATUAL, pergunta, tipo, tentativa, sql_bruto, valido,
                   sql_validado, revalidado, sql_executado, linhas, chamadas,
                   desfecho, resposta, chamadas_llm, esperas, conexoes_abertas,
                   ano_relogio, chat_history, history_for_ia, argumentos>>

NextFiltros == MontarBlocoFiltros

SpecFiltros == InitFiltros /\ [][NextFiltros]_vars

-----------------------------------------------------------------------------
(* The conversation memory of the two hosts: the dashboard of src/app.py
   (st.session_state.chat_history, lines 1150-1216) and the loop of chat()
   (lines 1630-1647).  A turn is a record of role and text; the timestamp
   the dashboard adds is left out.  pc tells the host and whether a call of
   responder_pergunta_livre is in progress. *)

MAX_HISTORY_MSGS == 20

MaxTurnosDaSessao == 22

\* what the user can type; the last one is blank
Mensagens == {<<"o", "i">>, <<"q", "u", "a", "n", "t", "a", "s", " ", "v", "i", "s", "i", "t", "a", "s", "?">>, <<" ", " ">>}

\* lines 1196-1199: the role and text of the last MAX_HISTORY_MSGS turns
ultimas_da_sessao(h) ==
    IF Len(h) <= MAX_HISTORY_MSGS THEN h
    ELSE SubSeq(h, Len(h) - MAX_HISTORY_MSGS + 1, Len(h))

InitSessao ==
    /\ client = TRUE
    /\ ANO_ATUAL = AnoDeImportacao
    /\ pc \in {"painel_ocioso", "chat_ocioso"}
    /\ pergunta = Nulo
    /\ tipo = Nulo
    /\ tentativa = 0
    /\ sql_bruto = Nulo
    /\ valido = FALSE
    /\ sql_validado = Nulo
    /\ revalidado = Nulo
    /\ sql_executado = Nulo
    /\ linhas = 0
    /\ chamadas = <<>>
    /\ desfecho = Nulo
    /\ resposta = Nulo
    /\ chamadas_llm = 0
    /\ esperas = <<>>
    /\ conexoes_abertas = 0
    /\ ano_relogio = AnoDeImportacao
    /\ chat_history = <<>>
    /\ history_for_ia = <<>>
    /\ argumentos = Nulo
    /\ retorno = Nulo

fora_da_sessao == <<client, ANO_ATUAL, tipo, tentativa, sql_bruto, valido, sql_validado,
                    revalidado, sql_executado, linhas, chamadas, desfecho,
                    chamadas_llm, esperas, conexoes_abertas, ano_relogio,
                    argumentos, retorno>>

\* src/app.py lines 1186-1207: the form was sent with a message that is not
\* blank; the user turn is appended, the history for the core is cut out
\* and responder_pergunta_livre is called
Enviar ==
    /\ pc = "painel_ocioso"
    /\ Len(chat_history) + 2 <= MaxTurnosDaSessao
    /\ \E user_msg \in Mensagens :
          /\ strip(user_msg) # <<>>
          /\ pergunta' = user_msg
          /\ chat_history' = Append(chat_history, [role |-> "user", text |-> user_msg])
          /\ history_for_ia' =
                ultimas_da_sessao(Append(chat_history, [role |-> "user", text |-> user_msg]))
    /\ pc' = "painel_respondendo"
    /\ UNCHANGED resposta
    /\ UNCHANGED fora_da_sessao

\* src/app.py lines 1209-1216: the call has returned; the assistant turn is
\* appended
Responder ==
    /\ pc = "painel_respondendo"
    /\ resposta' = texto_llm
    /\ chat_history' = Append(chat_history, [role |-> "assistant", text |-> texto_llm])
    /\ pc' = "painel_ocioso"
    /\ UNCHANGED <<pergunta, history_for_ia>>
    /\ UNCHANGED fora_da_sessao

\* src/app.py lines 1182-1184: the clear button
Limpar ==
    /\ pc = "painel_ocioso"
    /\ chat_history # <<>>
    /\ chat_history' = <<>>
    /\ UNCHANGED <<pc, pergunta, resposta, history_for_ia>>
    /\ UNCHANGED fora_da_sessao

\* chat(), lines 1633-1644: a question that is not blank and no command;
\* the user turn is appended to the list and the list itself is handed to
\* responder_pergunta_livre
PerguntarNoChat ==
    /\ pc = "chat_ocioso"
    /\ Len(chat_history) + 2 <= MaxTurnosDaSessao
    /\ \E entrada \in Mensagens :
          /\ strip(entrada) # <<>>
          /\ pergunta' = strip(entrada)
          /\ chat_history' = Append(chat_history, [role |-> "user", text |-> strip(entrada)])
          /\ history_for_ia' = Append(chat_history, [role |-> "user", text |-> strip(entrada)])
    /\ pc' = "chat_respondendo"
    /\ UNCHANGED resposta
    /\ UNCHANGED fora_da_sessao

\* chat(), lines 1644-1647
ResponderNoChat ==
    /\ pc = "chat_respondendo"
    /\ resposta' = texto_llm
    /\ chat_history' = Append(chat_history, [role |-> "assistant", text |-> texto_llm])
    /\ pc' = "chat_ocioso"
    /\ UNCHANGED <<pergunta, history_for_ia>>
    /\ UNCHANGED fora_da_sessao

NextSessao ==
    \/ Enviar
    \/ Responder
    \/ Limpar
    \/ PerguntarNoChat
    \/ ResponderNoChat

SpecSessao == InitSessao /\ [][NextSessao]_vars
-----------------------------------------------------------------------------
(* Notions the checked properties speak of, defined apart from the code *)

\* the validator has answered (in a request, or called on its own)
Validou ==
    \/ pc \in {"v_saida", "v_revalidado"}
    \/ Len(chamadas) >= 2

\* the validator, called on its own, has just answered
Respondeu == pc = "v_saida"

Etapas == <<"gerar", "validar", "executar", "analisar">>

EhPrefixo(a, b) == Len(a) <= Len(b) /\ SubSeq(b, 1, Len(a)) = a

ErroAoUsuario(texto) == texto # Nulo /\ startswith(texto, <<"U+274C">>)

\* the statement validate looks at: code fences and surrounding blanks
\* stripped, the text before the first ';'
PrimeiraInstrucao(s) ==
    strip(antes_do_primeiro(
        strip(replace(replace(s, <<"BQ", "BQ", "BQ", "s", "q", "l">>, <<>>), <<"BQ", "BQ", "BQ">>, <<>>)), ";"))

\* s has the word w at position i, letter case apart (w is in capitals)
TemEm(s, w, i) ==
    /\ i >= 1
    /\ i + Len(w) - 1 <= Len(s)
    /\ \A k \in 1..Len(w) : maiuscula(s[i + k - 1]) = w[k]

ComecaPor(s, w) == TemEm(s, w, 1)

ComecaPorSelectOuWith(s) == ComecaPor(s, <<"S", "E", "L", "E", "C", "T">>) \/ ComecaPor(s, <<"W", "I", "T", "H">>)

\* w stands in s as a token of its own, in any letter case
TokenIsolado(s, w) ==
    \E i \in 1..(Len(s) - Len(w) + 1) :
        /\ TemEm(s, w, i)
        /\ (i > 1 => s[i - 1] \notin palavra)
        /\ (i + Len(w) <= Len(s) => s[i + Len(w)] \notin palavra)

Destrutivos == {
    <<"D", "R", "O", "P">>, <<"D", "E", "L", "E", "T", "E">>, <<"U", "P", "D", "A", "T", "E">>, <<"I", "N", "S", "E", "R", "T">>, <<"T", "R", "U", "N", "C", "A", "T", "E">>,
    <<"A", "L", "T", "E", "R">>, <<"C", "R", "E", "A", "T", "E">>, <<"G", "R", "A", "N", "T">>, <<"R", "E", "V", "O", "K", "E">> }

\* the names that stand right after the keyword kw in s: kw at the start of
\* a word, in any letter case, then blanks, then the whole run of name
\* characters
NomesApos(s, kw) ==
    LET n == Len(kw)
        inicios == {i \in 1..(Len(s) - n - 1) :
                       /\ TemEm(s, kw, i)
                       /\ (i > 1 => s[i - 1] \notin palavra)
                       /\ s[i + n] \in espaco
                       /\ fim_da_serie(s, i + n, espaco) <= Len(s)
                       /\ s[fim_da_serie(s, i + n, espaco)] \in classe_tabela}
    IN  {SubSeq(s, fim_da_serie(s, i + n, espaco),
                   fim_da_serie(s, fim_da_serie(s, i + n, espaco), classe_tabela) - 1) :
            i \in inicios}

AlvosDeFromJoin(s) == NomesApos(s, <<"F", "R", "O", "M">>) \cup NomesApos(s, <<"J", "O", "I", "N">>)

Qualificado(nome) == \E i \in DOMAIN nome : nome[i] = "."

\* the names a WITH clause of the statement declares
NomesDeCTE(s) == NomesApos(s, <<"W", "I", "T", "H">>)

-----------------------------------------------------------------------------
(* Properties of a data request (specification Spec) *)

\* C1. The query executor is invoked only after validar_e_corrigir_sql has
\* accepted the generated text of this request, and what it receives is the
\* corrected SQL the validator returned for that text; after a rejection the
\* executor is never invoked.
C1_ExecutaSoOCorrigido ==
    /\ sql_executado # Nulo =>
          /\ valido
          /\ <<TRUE, sql_executado>> \in validar_e_corrigir_sql(sql_bruto, ANO_ATUAL)
          /\ \E i, j \in DOMAIN chamadas :
                i < j /\ chamadas[i] = "validar" /\ chamadas[j] = "executar"
    /\ (Validou /\ ~valido) =>
          /\ sql_executado = Nulo
          /\ \A i \in DOMAIN chamadas : chamadas[i] # "executar"

\* C1 witness: the executor has run a text the validator had to correct
C1_Witness ==
    /\ desfecho = "analisado"
    /\ sql_executado # Nulo
    /\ sql_executado # sql_bruto

\* C3 as stated: whenever a name after FROM or JOIN is a table or view that is
\* not on the allow-list (and is no CTE of the statement), the validator
\* rejects, the executor is never invoked, and, unless an earlier rule (start
\* keyword, destructive keyword, year) already gave its own reason, the reason
\* names such a table.
C3_RecusaTodaTabelaForaDaLista ==
    Validou =>
        LET s == PrimeiraInstrucao(sql_bruto)
            fora == {t \in AlvosDeFromJoin(s) :
                        t \notin TABELAS_PERMITIDAS /\ t \notin NomesDeCTE(s)}
        IN  fora # {} =>
                /\ ~valido
                /\ sql_executado = Nulo
                /\ (/\ ComecaPorSelectOuWith(s)
                    /\ \A w \in Destrutivos : ~TokenIsolado(s, w)
                    /\ ~contem(s, <<"'", "2", "0">>))
                       => \E t \in fora : contem(sql_validado, <<"p", "e", "r", "m", "i", "t", "i", "d", "a", ":", " ">> \o t)

\* C10. Within one data request the stages are invoked at most once each and
\* in the order generate, validate, execute, interpret; when a stage fails
\* (error marker from the generator, rejection, exception of the store) the
\* request ends with an error string for the user and no later stage is
\* invoked.
C10_EtapasEmOrdem ==
    /\ EhPrefixo(chamadas, Etapas)
    /\ (sql_bruto # Nulo /\ startswith(sql_bruto, <<"-", "-", " ", "E", "r", "r", "o">>) /\ pc \notin {"gerando", "gerado"}) =>
          /\ chamadas = SubSeq(Etapas, 1, 1)
          /\ pc = "fim" /\ ErroAoUsuario(resposta)
    /\ desfecho = "erro_geracao" =>
          /\ chamadas = SubSeq(Etapas, 1, 1)
          /\ pc = "fim" /\ ErroAoUsuario(resposta)
    /\ (Validou /\ ~valido) =>
          /\ chamadas = SubSeq(Etapas, 1, 2)
          /\ pc = "fim" /\ ErroAoUsuario(resposta)
    /\ desfecho = "erro_execucao" =>
          /\ chamadas = SubSeq(Etapas, 1, 3)
          /\ pc = "fim" /\ ErroAoUsuario(resposta)
    /\ desfecho = "analisado" => chamadas = Etapas

\* C10 witness: each of the three failures has ended a request; here the
\* store's exception, after generation and validation went through
C10_Witness ==
    /\ desfecho = "erro_execucao"
    /\ chamadas = <<"gerar", "validar", "executar">>
    /\ pc = "fim"

-----------------------------------------------------------------------------
(* Properties of validar_e_corrigir_sql (specification SpecValidacao) *)

\* C2 as stated: a destructive keyword standing as a token of its own
\* anywhere in the string handed to validate, in any letter case, makes
\* validate reject.
C2_RecusaDestrutivoNoTexto ==
    Respondeu =>
        ((\E w \in Destrutivos : TokenIsolado(sql_bruto, w)) => ~valido)

\* C2, amended. A destructive keyword standing as a token of its own, in any
\* letter case, anywhere in the statement validate keeps (code fences
\* stripped, text before the first ';') makes validate reject.
C2_RecusaDestrutivoNaInstrucao ==
    Respondeu =>
        LET s == PrimeiraInstrucao(sql_bruto)
        IN  (\E w \in Destrutivos : TokenIsolado(s, w)) => ~valido

\* C2 witness: a statement that starts with SELECT was rejected for the
\* lower-case keyword it carries
C2_Witness ==
    /\ pc = "v_saida"
    /\ ~valido
    /\ ComecaPor(PrimeiraInstrucao(sql_bruto), <<"S", "E", "L", "E", "C", "T">>)
    /\ contem(sql_bruto, <<"d", "r", "o", "p">>)
    /\ sql_validado = <<"U+274C", " ", "C", "o", "m", "a", "n", "d", "o", " ", "D", "R", "O", "P", " ", "n", "U+00E3", "o", " ", "p", "e", "r", "m", "i", "t", "i", "d", "o">>

\* C4. In the statement validate keeps, a dotted name after FROM or JOIN that
\* is not a member of the allow-list makes validate reject; a name without a
\* dot after FROM or JOIN never causes the allow-list rejection: that
\* rejection is given only when such a dotted name is there, and names one.
C4_SoNomeQualificadoERecusado ==
    Respondeu =>
        LET s == PrimeiraInstrucao(sql_bruto)
            fora == {t \in AlvosDeFromJoin(s) :
                        Qualificado(t) /\ t \notin TABELAS_PERMITIDAS}
        IN  /\ fora # {} => ~valido
            /\ (~valido /\ contem(sql_validado, <<"t", "a", "b", "e", "l", "a", "/", "v", "i", "e", "w">>))
                  => \E t \in fora : sql_validado = <<"U+274C", " ", "R", "e", "f", "e", "r", "U+00EA", "n", "c", "i", "a", " ", "a", " ", "t", "a", "b", "e", "l", "a", "/", "v", "i", "e", "w", " ", "n", "U+00E3", "o", " ", "p", "e", "r", "m", "i", "t", "i", "d", "a", ":", " ">> \o t

\* C4 witness: a statement with an unqualified unknown name after FROM and a
\* dotted unknown name after JOIN was rejected, the reason naming the latter
C4_Witness ==
    /\ pc = "v_saida"
    /\ ~valido
    /\ <<"s", "e", "c", "r", "e", "t", "_", "t", "a", "b", "l", "e">> \in AlvosDeFromJoin(PrimeiraInstrucao(sql_bruto))
    /\ sql_validado = <<"U+274C", " ", "R", "e", "f", "e", "r", "U+00EA", "n", "c", "i", "a", " ", "a", " ", "t", "a", "b", "e", "l", "a", "/", "v", "i", "e", "w", " ", "n", "U+00E3", "o", " ", "p", "e", "r", "m", "i", "t", "i", "d", "a", ":", " ", "s", "e", "c", ".", "t">>

\* C5. A text whose statement (code fences and leading blanks stripped, text
\* before the first ';') does not start with SELECT or WITH, compared without
\* regard to letter case, is rejected; every accepted corrected SQL starts
\* with SELECT or WITH.
C5_ComecaPorSelectOuWith ==
    Respondeu =>
        /\ ~ComecaPorSelectOuWith(PrimeiraInstrucao(sql_bruto)) => ~valido
        /\ valido => ComecaPorSelectOuWith(sql_validado)

\* C5 witness: a fenced text whose statement starts with another word was
\* rejected for its start
C5_Witness ==
    /\ pc = "v_saida"
    /\ startswith(sql_bruto, <<"BQ", "BQ", "BQ", "s", "q", "l">>)
    /\ Len(PrimeiraInstrucao(sql_bruto)) > 0
    /\ ~valido
    /\ sql_validado = <<"U+274C", " ", "S", "Q", "L", " ", "d", "e", "v", "e", " ", "c", "o", "m", "e", "U+00E7", "a", "r", " ", "c", "o", "m", " ", "S", "E", "L", "E", "C", "T", " ", "o", "u", " ", "W", "I", "T", "H">>

\* where a bare COUNT(*) that starts at position i of s ends, 0 if none does:
\* COUNT in any letter case, then ( * ) with blanks allowed around each
FimDeEstrela(s, i) ==
    IF ~TemEm(s, <<"C", "O", "U", "N", "T">>, i) THEN 0
    ELSE LET fins == {c \in (i + 7)..Len(s) :
                        /\ s[c] = ")"
                        /\ \E a, b \in (i + 5)..(c - 1) :
                              /\ a < b
                              /\ s[a] = "("
                              /\ s[b] = "*"
                              /\ \A x \in ((i + 5)..(c - 1)) \ {a, b} : s[x] \in espaco}
         IN  IF fins = {} THEN 0 ELSE Minimo(fins)

NumEstrela(s) == Cardinality({i \in 1..Len(s) : FimDeEstrela(s, i) # 0})

NumDistinct(s) == Cardinality({i \in 1..Len(s) : ocorre_em(s, count_distinct, i)})

\* s with every bare COUNT(*) and every COUNT(DISTINCT task_id) replaced by
\* the one mark "#": what a rewrite of the former into the latter leaves alone
RECURSIVE Esqueleto(_)
Esqueleto(s) ==
    LET marcas == {i \in 1..Len(s) :
                      FimDeEstrela(s, i) # 0 \/ ocorre_em(s, count_distinct, i)}
    IN  IF marcas = {} THEN s
        ELSE LET m == Minimo(marcas)
                 f == IF FimDeEstrela(s, m) # 0 THEN FimDeEstrela(s, m)
                      ELSE m + Len(count_distinct) - 1
             IN  SubSeq(s, 1, m - 1) \o <<"#">>
                     \o Esqueleto(SubSeq(s, f + 1, Len(s)))

FimDeClausulaLimit(s, i) ==
    IF ~(/\ TemEm(s, <<"L", "I", "M", "I", "T">>, i)
         /\ (i > 1 => s[i - 1] \notin palavra)
         /\ i + 5 <= Len(s)
         /\ s[i + 5] \in espaco) THEN 0
    ELSE LET d == fim_da_serie(s, i + 5, espaco)
             e == fim_da_serie(s, d, Imagem(digitos))
         IN  IF e > d THEN e - 1 ELSE 0

ValorDaClausulaLimit(s, i) ==
    int(SubSeq(s, fim_da_serie(s, i + 5, espaco), FimDeClausulaLimit(s, i)))

\* s with each LIMIT n clause, n > 1000, replaced by LIMIT 1000 and every
\* other clause left as it is
RECURSIVE CadaLimitAte1000(_, _)
CadaLimitAte1000(s, i) ==
    LET clausulas == {j \in i..Len(s) : FimDeClausulaLimit(s, j) # 0}
    IN  IF clausulas = {} THEN SubSeq(s, i, Len(s))
        ELSE LET m == Minimo(clausulas)
                 f == FimDeClausulaLimit(s, m)
             IN  SubSeq(s, i, m - 1)
                     \o (IF ValorDaClausulaLimit(s, m) > 1000
                         THEN <<"L", "I", "M", "I", "T", " ", "1", "0", "0", "0">> ELSE SubSeq(s, m, f))
                     \o CadaLimitAte1000(s, f + 1)

\* C7 as stated: on accepted SQL, a statement with no LIMIT clause gets
\* "LIMIT 100" appended; otherwise each LIMIT n with n > 1000 becomes
\* LIMIT 1000 and each LIMIT n with 1 <= n <= 1000 stays as it is, also when
\* the statement has more than one LIMIT clause.
C7_LimiteDeResultado ==
    (Respondeu /\ valido) =>
        LET s == forcar_distinct_task_id_em_vw_todas(PrimeiraInstrucao(sql_bruto))
        IN  IF \A i \in 1..Len(s) : FimDeClausulaLimit(s, i) = 0
            THEN sql_validado = s \o <<"\n", "L", "I", "M", "I", "T", " ", "1", "0", "0">>
            ELSE sql_validado = CadaLimitAte1000(s, 1)

\* C8. validate is idempotent on accepted input: the corrected SQL c that
\* validate returned is accepted by validate and returned as it is.
C8_Idempotente ==
    pc = "v_revalidado" => revalidado = <<TRUE, sql_validado>>

\* C8 witness: the corrected SQL differs from the text handed in (a COUNT(*)
\* rewritten, a LIMIT appended or clamped) and has been validated again
C8_Witness ==
    /\ pc = "v_revalidado"
    /\ sql_validado # PrimeiraInstrucao(sql_bruto)
    /\ contem(sql_validado, count_distinct)

\* C9. For a statement that reads contele.vw_todas_os_respostas with a bare
\* COUNT(*), no WHERE and no LIMIT: the corrections never make validate
\* reject it as too generic; when accepted, the corrected SQL has
\* COUNT(DISTINCT task_id) in the place of each COUNT(*) and ends with the
\* appended LIMIT 100, the rest of the statement being as it was; and the
\* statement of scenario 4 is accepted with exactly these two corrections.
C9_AmbasAsCorrecoes ==
    Respondeu =>
        LET s == PrimeiraInstrucao(sql_bruto)
            n == Len(sql_validado) - Len(<<"\n", "L", "I", "M", "I", "T", " ", "1", "0", "0">>)
        IN  (/\ contem(s, <<"c", "o", "n", "t", "e", "l", "e", ".", "v", "w", "_", "t", "o", "d", "a", "s", "_", "o", "s", "_", "r", "e", "s", "p", "o", "s", "t", "a", "s">>)
             /\ NumEstrela(s) > 0
             /\ ~contem(upper(s), <<"W", "H", "E", "R", "E">>)
             /\ ~contem(upper(s), <<"L", "I", "M", "I", "T">>))
            => /\ ~valido => ~contem(sql_validado, <<"Q", "u", "e", "r", "y", " ", "m", "u", "i", "t", "o">>)
               /\ valido =>
                     /\ n > 0
                     /\ SubSeq(sql_validado, n + 1, Len(sql_validado)) = <<"\n", "L", "I", "M", "I", "T", " ", "1", "0", "0">>
                     /\ NumEstrela(sql_validado) = 0
                     /\ NumDistinct(sql_validado) = NumDistinct(s) + NumEstrela(s)
                     /\ Esqueleto(SubSeq(sql_validado, 1, n)) = Esqueleto(s)
               /\ sql_bruto = cenario4 =>
                     /\ valido
                     /\ sql_validado =
                           <<"S", "E", "L", "E", "C", "T", " ", "C", "O", "U", "N", "T", "(", "D", "I", "S", "T", "I", "N", "C", "T", " ", "t", "a", "s", "k", "_", "i", "d", ")", " ", "F", "R", "O", "M", " ", "c", "o", "n", "t", "e", "l", "e", ".", "v", "w", "_", "t", "o", "d", "a", "s", "_", "o", "s", "_", "r", "e", "s", "p", "o", "s", "t", "a", "s", "\n", "L", "I", "M", "I", "T", " ", "1", "0", "0">>

\* C9 witness: scenario 4 has been validated
C9_Witness ==
    /\ pc = "v_saida"
    /\ sql_bruto = cenario4
    /\ valido

-----------------------------------------------------------------------------
(* Properties of the replies, the retries and the classification *)

\* the request has returned to its caller
Terminou == pc = "fim"

\* the outcomes in which a stage failed or configuration was missing
Falhas == {"casual_sem_client", "erro_casual", "erro_geracao", "rejeitado",
           "erro_execucao", "erro_analise"}

Desfechos == Falhas \cup {"casual", "meta", "vazio", "analisado"}

\* C11. responder_pergunta_livre returns a string on every path: whenever a
\* request has ended, whatever the classification and the outcome of each
\* stage, the reply is a text and the outcome is one of the return
\* statements (no exception leaves the function); every failure reply starts
\* with an error prefix: the cross mark, or "Erro ao analisar: " / "Erro: "
\* when the interpreting stage failed.
C11_SempreUmaRespostaComPrefixo ==
    Terminou =>
        /\ resposta # Nulo
        /\ desfecho \in Desfechos
        /\ desfecho \in Falhas \ {"erro_analise"} => startswith(resposta, <<"U+274C">>)
        /\ desfecho = "erro_analise" =>
              \/ startswith(resposta, <<"E", "r", "r", "o", " ", "a", "o", " ", "a", "n", "a", "l", "i", "s", "a", "r", ":", " ">>)
              \/ startswith(resposta, <<"E", "r", "r", "o", ":", " ">>)

\* C11 witness: the store raised after generation and validation went
\* through, and the caller got the prefixed text of the exception
C11_Witness ==
    /\ Terminou
    /\ desfecho = "erro_execucao"
    /\ resposta = <<"U+274C", " ", "E", "r", "r", "o", ":", " ", "E", "r", "r", "o", " ", "a", "o", " ", "e", "x", "e", "c", "u", "t", "a", "r", " ", "S", "Q", "L", ":", " ", "s", "y", "n", "t", "a", "x", " ", "e", "r", "r", "o", "r">>

\* the generator has returned the marker of its exhausted retries or of the
\* missing client
DevolveuMarcador ==
    /\ pc = "gerado"
    /\ startswith(sql_bruto, <<"-", "-", " ", "E", "r", "r", "o">>)

\* C12. gerar_sql_com_ia makes at most 3 LLM calls per invocation; the first
\* call that succeeds ends it (the calls made are the failures before it and
\* that one); after 3 failed calls it returns a text starting with "-- Erro";
\* it always returns; and the entry point answers the marker with the error
\* reply made of the cross mark and the marker.
C12_NoMaximoTresChamadas ==
    /\ [](pc \in {"gerando", "gerado"} =>
            /\ chamadas_llm <= 3
            /\ Len(esperas) <= 3
            /\ (pc = "gerando" => chamadas_llm = Len(esperas) /\ chamadas_llm < 3)
            /\ (pc = "gerado" /\ client /\ ~DevolveuMarcador =>
                    chamadas_llm = Len(esperas) + 1)
            /\ (Len(esperas) = 3 => DevolveuMarcador /\ chamadas_llm = 3))
    /\ [](desfecho = "erro_geracao" => resposta = <<"U+274C", " ">> \o sql_bruto)
    /\ (pc = "gerando" ~> pc = "gerado")
    /\ (DevolveuMarcador ~> desfecho = "erro_geracao")

\* C12 witness: three calls failed and the generator returned its marker
C12_Witness ==
    /\ pc = "gerado"
    /\ chamadas_llm = 3
    /\ sql_bruto = <<"-", "-", " ", "E", "r", "r", "o", " ", "a", "o", " ", "g", "e", "r", "a", "r", " ", "S", "Q", "L", " ", "a", "p", "U+00F3", "s", " ", "3", " ", "t", "e", "n", "t", "a", "t", "i", "v", "a", "s", ":", " ", "t", "i", "m", "e", "o", "u", "t">>


\* C13: the wait after the k-th consecutive failure of the generator is
\* 0.8 * 2^(k-1) seconds, each wait the double of the one before
\* (waits are in tenths of a second)
C13_EsperaExponencial ==
    \A k \in DOMAIN esperas :
        /\ esperas[k] = backoff_base * 2^(k - 1)
        /\ (k > 1 => esperas[k] = 2 * esperas[k - 1])

\* the utterance as the casual rule reads it: lower case, no surrounding
\* whitespace
Normalizada(u) == strip(lower(u))

\* the utterance equals or starts with a word of the casual list
RegraCasual(u) == \E c \in conversas_casuais : EhPrefixo(c, Normalizada(u))

\* the stages of the SQL path the request has gone through
PassouPeloCaminhoSQL ==
    \/ chamadas # <<>>
    \/ pc \in {"gerando", "gerado", "validado", "executado"}
    \/ sql_bruto # Nulo
    \/ sql_validado # Nulo
    \/ sql_executado # Nulo
    \/ esperas # <<>>

\* C14: an utterance that equals or starts with a casual word (case and
\* surrounding whitespace ignored) is classified casual and answered by the
\* casual-conversation path; a casual or meta request never generates,
\* validates or executes SQL: only a request classified dados does
C14_SoDadosGeramSQL ==
    pergunta # Nulo =>
        /\ (RegraCasual(pergunta) => tipo = "casual")
        /\ (tipo = "casual" =>
                /\ pc \in {"casual", "fim"}
                /\ (pc = "fim" => desfecho \in {"casual", "casual_sem_client", "erro_casual"}))
        /\ (tipo = "meta" => pc = "fim" /\ desfecho = "meta" /\ chamadas_llm = 0)
        /\ (tipo \in {"casual", "meta"} => ~PassouPeloCaminhoSQL)
        /\ (PassouPeloCaminhoSQL => tipo = "dados")

C14_Witness ==
    /\ pergunta = <<" ", "B", "o", "m", " ", "d", "i", "a", "!", " ">>
    /\ tipo = "casual"
    /\ desfecho = "casual"
    /\ Terminou

\* the utterance contains a phrase of the meta list
RegraMeta(u) == \E m \in meta_keywords : contem(Normalizada(u), m)

\* the utterance contains a word of the data list
RegraDados(u) == \E d \in dados_keywords : contem(Normalizada(u), d)

Classificou == pc = "c_saida"

\* C15: the classifier answers exactly one of casual, meta, dados; an
\* utterance matching the casual rule is casual whatever else it contains;
\* one matching a meta phrase and not the casual rule is meta; every other
\* utterance, one matching no list included, is dados
C15_ClassificadorTotalEPriorizado ==
    Classificou =>
        /\ tipo \in {"casual", "meta", "dados"}
        /\ (RegraCasual(pergunta) => tipo = "casual")
        /\ (~RegraCasual(pergunta) /\ RegraMeta(pergunta) => tipo = "meta")
        /\ (~RegraCasual(pergunta) /\ ~RegraMeta(pergunta) => tipo = "dados")

C15_Witness ==
    /\ Classificou
    /\ RegraCasual(pergunta)
    /\ RegraMeta(pergunta)
    /\ RegraDados(pergunta)
    /\ tipo = "casual"

\* an utterance of no list at all
C15_WitnessSemLista ==
    /\ Classificou
    /\ ~RegraCasual(pergunta) /\ ~RegraMeta(pergunta) /\ ~RegraDados(pergunta)
    /\ pergunta # <<>>
    /\ tipo = "dados"

\* the years of the date string literals of a text: a quote, four digits,
\* then - or /
AnosDeLiterais(sql) ==
    {int(SubSeq(sql, i + 1, i + 4)) :
        i \in {j \in 1..(Len(sql) - 5) :
                  /\ sql[j] = "'"
                  /\ \A k \in 1..4 : sql[j + k] \in Imagem(digitos)
                  /\ sql[j + 5] \in {"-", "/"}}}

\* the year lies in [current year - 1, current year]
AnoNoIntervalo(a) == ANO_ATUAL - 1 <= a /\ a <= ANO_ATUAL

\* C16: a text with a date string literal whose year lies outside
\* [current year - 1, current year] is rejected
C16_AnoForaDoIntervaloRejeitado ==
    Respondeu =>
        ((\E a \in AnosDeLiterais(sql_bruto) : ~AnoNoIntervalo(a)) => ~valido)

\* how many times the request has called the stage
Vezes(etapa) == Cardinality({i \in DOMAIN chamadas : chamadas[i] = etapa})

\* the error texts the store can give
ErrosDoBanco == {erro_banco, erro_conexao}

\* C17: a request calls the executor at most once; when the execution
\* succeeded it was called exactly once; when the store gave an error there
\* was one call only, the interpreting stage was not called, and the reply
\* contains the store's error text
C17_UmaExecucaoSemRepeticao ==
    /\ Vezes("executar") <= 1
    /\ (pc = "executado" => Vezes("executar") = 1)
    /\ (Terminou /\ desfecho \in {"vazio", "analisado", "erro_analise"}
            => Vezes("executar") = 1)
    /\ (Terminou /\ desfecho = "erro_execucao" =>
            /\ Vezes("executar") = 1
            /\ Vezes("analisar") = 0
            /\ \E e \in ErrosDoBanco : contem(resposta, e))

C17_Witness ==
    /\ Terminou
    /\ desfecho = "erro_execucao"
    /\ contem(resposta, erro_banco)
    /\ chamadas = <<"gerar", "validar", "executar">>

\* C18: without a configured client every casual or data question ends in a
\* refusal text naming the missing configuration; the request makes no call
\* to the language model, never reaches the executor and opens no connection
C18_SemClienteRecusa ==
    ~client /\ pergunta # Nulo /\ tipo \in {"casual", "dados"} =>
        /\ chamadas_llm = 0
        /\ esperas = <<>>
        /\ Vezes("validar") = 0
        /\ Vezes("executar") = 0
        /\ conexoes_abertas = 0
        /\ pc \in {"casual", "gerado", "fim"}
        /\ (Terminou =>
                /\ desfecho \in {"casual_sem_client", "erro_geracao"}
                /\ ErroAoUsuario(resposta)
                /\ contem(resposta, <<"O", "p", "e", "n", "A", "I", " ", "n", "U+00E3", "o", " ", "c", "o", "n", "f", "i", "g", "u", "r", "a", "d", "a">>))

C18_Witness ==
    /\ ~client
    /\ Terminou
    /\ tipo = "dados"
    /\ resposta = <<"U+274C", " ", "-", "-", " ", "E", "r", "r", "o", ":", " ", "O", "p", "e", "n", "A", "I", " ", "n", "U+00E3", "o", " ", "c", "o", "n", "f", "i", "g", "u", "r", "a", "d", "a">>

\* executar_sql is not running: it has not been called yet, or it has
\* returned or raised
ForaDoExecutor == pc \in {"ocioso", "casual", "gerando", "gerado", "executado", "fim"}

\* C19: every connection executar_sql opened is closed before the call
\* returns or raises: outside the executor no connection is open
C19_ConexaoFechadaAoSair == ForaDoExecutor => conexoes_abertas = 0

\* the rules of the validator that reject, each as a property of the
\* statement it looks at
Viola(regra, s) ==
    CASE regra = "inicio" -> ~ComecaPorSelectOuWith(s)
      [] regra = "destrutivo" -> \E w \in Destrutivos : TokenIsolado(s, w)
      [] regra = "tabela" ->
            \E t \in AlvosDeFromJoin(s) : Qualificado(t) /\ t \notin TABELAS_PERMITIDAS
      [] regra = "coluna" ->
            \/ contem(lower(s), <<"d", "a", "t", "a", "_", "c", "r", "i", "a", "c", "a", "o", "_", "p", "e", "n", "d", "e", "n", "c", "i", "a">>)
            \/ contem(lower(s), <<"d", "e", "s", "c", "r", "i", "c", "a", "o", "_", "p", "e", "n", "d", "e", "n", "c", "i", "a">>)
      [] regra = "ano" ->
            \E a \in AnosDeLiterais(s) :
                2000 <= a /\ a <= 2099 /\ (a < 2024 \/ a > ANO_ATUAL)

\* the words by which the reason of each rule is known
RazaoDa(regra, razao) ==
    CASE regra = "inicio" -> contem(razao, <<"d", "e", "v", "e", " ", "c", "o", "m", "e", "U+00E7", "a", "r", " ", "c", "o", "m", " ", "S", "E", "L", "E", "C", "T", " ", "o", "u", " ", "W", "I", "T", "H">>)
      [] regra = "destrutivo" -> contem(razao, <<"C", "o", "m", "a", "n", "d", "o", " ">>)
      [] regra = "tabela" -> contem(razao, <<"t", "a", "b", "e", "l", "a", "/", "v", "i", "e", "w", " ", "n", "U+00E3", "o", " ", "p", "e", "r", "m", "i", "t", "i", "d", "a">>)
      [] regra = "coluna" -> contem(razao, <<"c", "o", "l", "u", "n", "a", "s", " ", "q", "u", "e", " ", "n", "U+00E3", "o", " ", "e", "x", "i", "s", "t", "e", "m">>)
      [] regra = "ano" -> contem(razao, <<"A", "n", "o", " ">>)

\* the order of the rules as documented, and as the code applies them
OrdemDocumentada == <<"inicio", "destrutivo", "tabela", "coluna", "ano">>
OrdemDoCodigo == <<"inicio", "destrutivo", "ano", "tabela", "coluna">>

\* the statement is rejected with the reason of the first rule of the order
\* that it violates, when it violates one
RazaoDaPrimeiraViolada(ordem) ==
    LET s == PrimeiraInstrucao(sql_bruto)
        violadas == {k \in DOMAIN ordem : Viola(ordem[k], s)}
    IN  violadas # {} =>
            /\ ~valido
            /\ RazaoDa(ordem[Minimo(violadas)], sql_validado)
            /\ \A k \in DOMAIN ordem :
                  k # Minimo(violadas) => ~RazaoDa(ordem[k], sql_validado)

\* C20 as stated: the rules are applied in the order start keyword,
\* destructive keywords, table allow-list, column blocklist, year range
\* (then the LIMIT cap and the generic-query heuristic), so a statement
\* violating several rules is rejected with the reason of the earliest one
\* in that order; one with a disallowed dotted table and an out-of-range
\* year gets the table reason
C20_OrdemDocumentada == Respondeu => RazaoDaPrimeiraViolada(OrdemDocumentada)

\* C20 amended: the order is start keyword, destructive keywords, year
\* range, table allow-list, column blocklist (then the LIMIT cap and the
\* generic-query heuristic); a statement with a disallowed dotted table and
\* an out-of-range year gets the year reason
C20_OrdemDoCodigo == Respondeu => RazaoDaPrimeiraViolada(OrdemDoCodigo)

C20_Witness ==
    /\ Respondeu
    /\ sql_bruto = cenario_tabela_e_ano
    /\ Viola("tabela", sql_bruto)
    /\ Viola("ano", sql_bruto)
    /\ ~valido
    /\ RazaoDa("ano", sql_validado)

-----------------------------------------------------------------------------
(* Properties of the validator over time, of the helpers of the prompt and
   of the session history *)

\* C21: the accepted years follow the wall clock at the time of each
\* validation: when the validator is called on a text whose date literals
\* are all of the year the clock shows at that moment, it does not reject
\* the text for its year
C21_AnoDoRelogioAceito ==
    [][(/\ pc = "v_entrada" /\ pc' = "v_saida"
        /\ AnosDeLiterais(sql_bruto) # {}
        /\ AnosDeLiterais(sql_bruto) \subseteq {ano_relogio})
          => (valido' \/ ~RazaoDa("ano", sql_validado'))]_vars

\* the columns the schema catalog documents as not existing on vw_pendencias
ColunasInexistentes == {
    <<"d", "a", "t", "a", "_", "c", "r", "i", "a", "c", "a", "o", "_", "p", "e", "n", "d", "e", "n", "c", "i", "a">>, <<"d", "e", "s", "c", "r", "i", "c", "a", "o", "_", "p", "e", "n", "d", "e", "n", "c", "i", "a">>, <<"p", "e", "n", "d", "e", "n", "c", "i", "a", "_", "a", "b", "e", "r", "t", "a">> }

\* C22: a text that mentions, in any letter case, one of the columns the
\* schema catalog documents as not existing on vw_pendencias is rejected,
\* and with the invalid-column reason when no earlier rule gave its own
C22_ColunaInexistenteRecusada ==
    Respondeu =>
        LET s == PrimeiraInstrucao(sql_bruto)
        IN  (\E c \in ColunasInexistentes : contem(lower(s), c)) =>
                /\ ~valido
                /\ (\A k \in {"inicio", "destrutivo", "ano", "tabela"} : ~Viola(k, s))
                      => RazaoDa("coluna", sql_validado)

\* the words of a text, in capitals: the runs of characters between blanks
RECURSIVE Palavras(_)
Palavras(s) ==
    LET i == fim_da_serie(s, 1, espaco)
    IN  IF i > Len(s) THEN <<>>
        ELSE LET nao_espaco == {c \in Imagem(s) : c \notin espaco}
                 j == fim_da_serie(s, i, nao_espaco)
             IN  <<upper(SubSeq(s, i, j - 1))>> \o Palavras(SubSeq(s, j, Len(s)))

\* the words w stand in ws one after the other, starting at position k
Seguidas(ws, w, k) ==
    /\ k >= 1
    /\ k + Len(w) - 1 <= Len(ws)
    /\ \A n \in DOMAIN w : ws[k + n - 1] = w[n]

\* a one-line statement that selects something from the table t and ends
\* the scan with LIMIT 1, with no WHERE and no ORDER BY anywhere in it
VarreduraSemFiltro(s, t) ==
    LET ws == Palavras(s)
    IN  /\ ~contem(s, <<"\n">>)
        /\ \E k \in 3..Len(ws) :
              /\ Seguidas(ws, <<<<"F", "R", "O", "M">>, upper(t), <<"L", "I", "M", "I", "T">>, <<"1">>>>, k)
              /\ \E j \in 1..(k - 2) : ws[j] = <<"S", "E", "L", "E", "C", "T">>
        /\ ~contem(upper(s), <<"W", "H", "E", "R", "E">>)
        /\ ~contem(upper(s), <<"O", "R", "D", "E", "R", " ", "B", "Y">>)

RazaoGenerica(razao) == contem(razao, <<"Q", "u", "e", "r", "y", " ", "m", "u", "i", "t", "o", " ", "g", "e", "n", "U+00E9", "r", "i", "c", "a">>)

Dica == <<"\n", "U+1F501", " ", "D", "I", "C", "A", ":", " ", "E", "s", "p", "e", "c", "i", "f", "i", "q", "u", "e", " ", "O", "S", ",", " ", "p", "e", "r", "U+00ED", "o", "d", "o", " ", "o", "u", " ", "o", "b", "j", "e", "t", "i", "v", "o", ".">>

NenhumaRegraAnterior(s) == \A k \in DOMAIN OrdemDoCodigo : ~Viola(OrdemDoCodigo[k], s)

\* the verdict on unfiltered scans of the tables of the set ts: such a scan
\* is rejected as too generic (unless an earlier rule rejected it) and the
\* request is answered with the reason followed by the hint; a text with a
\* WHERE or an ORDER BY is never rejected as too generic
VeredictoDeGenerica(ts) ==
    Validou /\ sql_bruto # Nulo =>
        LET s == PrimeiraInstrucao(sql_bruto)
        IN  /\ ((\E t \in ts : VarreduraSemFiltro(s, t)) /\ NenhumaRegraAnterior(s)
                    => ~valido /\ RazaoGenerica(sql_validado))
            /\ (~valido /\ RazaoGenerica(sql_validado) =>
                    /\ ~contem(upper(s), <<"W", "H", "E", "R", "E">>)
                    /\ ~contem(upper(s), <<"O", "R", "D", "E", "R", " ", "B", "Y">>)
                    /\ (Terminou => resposta = sql_validado \o Dica))

Montou == pc = "a_saida"

\* the types of the numeric values: integers, floating-point numbers and
\* exact decimals
Numericos == {"int", "float", "Decimal"}

\* C24: for a result of exactly one row the metrics map holds every column
\* whose value is numeric (integer, floating, exact decimal) and no column
\* whose value is not (text, null, boolean); for zero rows or several rows
\* it is empty; total_linhas is the number of rows, apart from the map
C24_MetricasDeUmaLinha ==
    Montou =>
        LET cols == argumentos.colunas
            rows == argumentos.linhas
        IN  /\ retorno.total_linhas = Len(rows)
            /\ "total_linhas" \notin DOMAIN retorno.metricas_numericas
            /\ (Len(rows) # 1 => DOMAIN retorno.metricas_numericas = {})
            /\ (Len(rows) = 1 =>
                    /\ DOMAIN retorno.metricas_numericas =
                          {cols[i] : i \in {j \in DOMAIN cols : rows[1][j][1] \in Numericos}}
                    /\ \A i \in DOMAIN cols :
                          rows[1][i][1] \in Numericos
                              => retorno.metricas_numericas[cols[i]] = rows[1][i])

\* the row as a map from column name to value
LinhaComoMapa(cols, row) == [c \in {cols[i] : i \in DOMAIN cols} |->
                                row[CHOOSE i \in DOMAIN cols : cols[i] = c]]

\* C25: the preview handed to the language model is the first
\* min(50, number of rows) rows in the order of the result, each as a map
\* from column name to value, and total_linhas is the full number of rows
C25_PreviaDasPrimeiras50 ==
    Montou =>
        LET cols == argumentos.colunas
            rows == argumentos.linhas
            n == IF Len(rows) < 50 THEN Len(rows) ELSE 50
        IN  /\ retorno.total_linhas = Len(rows)
            /\ Len(retorno.preview_linhas) = n
            /\ \A k \in 1..n :
                  retorno.preview_linhas[k] = LinhaComoMapa(cols, rows[k])

C25_Witness ==
    /\ Montou
    /\ Len(argumentos.linhas) = 52
    /\ retorno.total_linhas = 52
    /\ Len(retorno.preview_linhas) = 50
    /\ retorno.preview_linhas[50]["total"] = <<"int", 50>>

Formatou == pc = "h_saida"

\* the turns the text may be built from: the last n of the history
UltimosTurnos(h, n) == [k \in 1..(IF Len(h) < n THEN Len(h) ELSE n) |->
                            h[Len(h) - (IF Len(h) < n THEN Len(h) ELSE n) + k]]

\* the text a turn carries, and whether it carries one
TextoDoTurno(m) ==
    IF m.text # Nulo /\ m.text # <<>> THEN m.text
    ELSE IF m.content # Nulo THEN m.content ELSE <<>>

\* the line of a turn: who spoke, then what was said
LinhaDoTurno(m) ==
    (IF m.role = "assistant" THEN <<"J", "o", "h", "n", ":", " ">> ELSE <<"U", "s", "u", "U+00E1", "r", "i", "o", ":", " ">>) \o TextoDoTurno(m)

\* the lines of the turns that carry a text, in the order of the turns,
\* one per line
RECURSIVE TextoDosTurnos(_)
TextoDosTurnos(h) ==
    IF h = <<>> THEN <<>>
    ELSE LET antes == TextoDosTurnos(SubSeq(h, 1, Len(h) - 1))
             m == h[Len(h)]
         IN  IF TextoDoTurno(m) = <<>> THEN antes
             ELSE IF antes = <<>> THEN LinhaDoTurno(m)
             ELSE antes \o <<"\n">> \o LinhaDoTurno(m)

\* a is the end of b
EhSufixo(a, b) == Len(a) <= Len(b) /\ SubSeq(b, Len(b) - Len(a) + 1, Len(b)) = a

\* C26: the text is built from the last 12 turns only, in their order,
\* without the turns of empty text; it is never longer than 4000
\* characters, and when the joined text is longer its most recent 4000
\* characters are kept; no history or an empty one gives the empty text
C26_HistoricoCompacto ==
    Formatou =>
        LET inteiro == TextoDosTurnos(UltimosTurnos(argumentos.history, 12))
        IN  /\ Len(retorno) <= 4000
            /\ EhSufixo(retorno, inteiro)
            /\ Len(retorno) = (IF Len(inteiro) < 4000 THEN Len(inteiro) ELSE 4000)
            /\ (argumentos.ausente \/ argumentos.history = <<>> => retorno = <<>>)

\* a history of more than 12 turns whose last 12 give more than 4000
\* characters
C26_Witness ==
    /\ Formatou
    /\ Len(argumentos.history) > 12
    /\ Len(TextoDosTurnos(UltimosTurnos(argumentos.history, 12))) > 4000
    /\ Len(retorno) = 4000
    /\ EhSufixo(<<"U", "s", "u", "U+00E1", "r", "i", "o", ":", " ", "o", "b", "r", "i", "g", "a", "d", "o">>, retorno)

MontouBloco == pc = "f_saida"

AnoBissexto(y) == y % 400 = 0 \/ (y % 4 = 0 /\ y % 100 # 0)

DiasNoMes(y) ==
    <<31, IF AnoBissexto(y) THEN 29 ELSE 28, 31, 30, 31, 30, 31, 31, 30, 31, 30, 31>>

EhData(d) == d[2] \in 1..12 /\ d[1] \in 1..DiasNoMes(d[3])[d[2]]

RECURSIVE DiasAntesDoMes(_, _)
DiasAntesDoMes(m, y) ==
    IF m = 1 THEN 0 ELSE DiasAntesDoMes(m - 1, y) + DiasNoMes(y)[m - 1]

\* the number of the day in the calendar, counted from 1 January of year 1
NumeroDoDia(d) ==
    LET a == d[3] - 1
    IN  365 * a + (a \div 4) - (a \div 100) + (a \div 400)
            + DiasAntesDoMes(d[2], d[3]) + d[1]

\* the date written dd/mm/yyyy, as the dashboard writes it
LerData(t) == <<int(SubSeq(t, 1, 2)), int(SubSeq(t, 4, 5)), int(SubSeq(t, 7, 10))>>

EscritaComoData(t) ==
    /\ t # Nulo
    /\ Len(t) = 10
    /\ t[3] = "/" /\ t[6] = "/"
    /\ \A i \in {1, 2, 4, 5, 7, 8, 9, 10} : t[i] \in Imagem(digitos)
    /\ EhData(LerData(t))

\* the calendar day that follows d
DiaSeguinte(d) ==
    CHOOSE x \in {<<dd, mm, yy>> : dd \in 1..31, mm \in 1..12, yy \in {d[3], d[3] + 1}} :
        EhData(x) /\ NumeroDoDia(x) = NumeroDoDia(d) + 1

\* C27: without filters (absent or empty) the guidance tells to infer the
\* period from the question only; with a start and an end date it states
\* the range from the start date (inclusive) to the day after the end date
\* (exclusive), in ISO form, the ends of months and years rolling over
C27_PeriodoDoDashboard ==
    MontouBloco =>
        /\ (argumentos.ausente =>
                /\ contem(retorno, <<"i", "n", "f", "i", "r", "a", " ", "o", " ", "p", "e", "r", "U+00ED", "o", "d", "o", " ", "a", " ", "p", "a", "r", "t", "i", "r", " ", "d", "a", " ", "p", "e", "r", "g", "u", "n", "t", "a">>)
                /\ ~contem(retorno, <<"P", "e", "r", "U+00ED", "o", "d", "o", " ", "p", "a", "d", "r", "U+00E3", "o">>))
        /\ ((/\ ~argumentos.ausente
             /\ EscritaComoData(argumentos.data_inicio)
             /\ EscritaComoData(argumentos.data_fim))
              => /\ contem(retorno, <<"d", "e", " ", "'">> \o isoformat(LerData(argumentos.data_inicio))
                                        \o <<"'", " ", "(", "i", "n", "c", "l", "u", "s", "i", "v", "e", ")">>)
                 /\ contem(retorno, <<"a", "t", "U+00E9", " ", "'">>
                                        \o isoformat(DiaSeguinte(LerData(argumentos.data_fim)))
                                        \o <<"'", " ", "(", "e", "x", "c", "l", "u", "s", "i", "v", "o", ")">>))

C27_Witness ==
    /\ MontouBloco
    /\ argumentos.data_inicio = <<"0", "1", "/", "1", "0", "/", "2", "0", "2", "5">>
    /\ argumentos.data_fim = <<"3", "1", "/", "1", "0", "/", "2", "0", "2", "5">>
    /\ contem(retorno, <<"d", "e", " ", "'", "2", "0", "2", "5", "-", "1", "0", "-", "0", "1", "'", " ", "(", "i", "n", "c", "l", "u", "s", "i", "v", "e", ")", " ", "a", "t", "U+00E9", " ", "'", "2", "0", "2", "5", "-", "1", "1", "-", "0", "1", "'", " ", "(", "e", "x", "c", "l", "u", "s", "i", "v", "o", ")">>)

-----------------------------------------------------------------------------
\* a call of responder_pergunta_livre is in progress / no call is
EmPedido == pc \in {"painel_respondendo", "chat_respondendo"}

SemPedido == pc \in {"painel_ocioso", "chat_ocioso"}

\* C28: the memory is appended to only after the answer is produced: the
\* step that starts the request for a question leaves the stored history
\* as it was and hands the core turns of earlier requests only, and the
\* step that completes it appends the user turn followed by the assistant
\* turn
C28_MemoriaSoDepoisDaResposta ==
    [][ /\ (SemPedido /\ EmPedido') =>
              /\ chat_history' = chat_history
              /\ EhSufixo(history_for_ia', chat_history)
        /\ (EmPedido /\ SemPedido') =>
              chat_history' = chat_history \o
                  << [role |-> "user", text |-> pergunta],
                     [role |-> "assistant", text |-> resposta'] >>
      ]_vars

\* C29: the stored history never holds more than the most recent
\* MAX_HISTORY_MSGS turns, the history handed to the core for a request is
\* the most recent at most MAX_HISTORY_MSGS turns in their order, and the
\* clear action empties the stored history
C29_JanelaDeslizante ==
    [][ /\ Len(chat_history') <= MAX_HISTORY_MSGS
        /\ EmPedido' => history_for_ia' = UltimosTurnos(chat_history', MAX_HISTORY_MSGS)
        /\ (pc = "painel_ocioso" /\ pc' = "painel_ocioso" /\ chat_history' # chat_history)
              => chat_history' = <<>>
      ]_vars

-----------------------------------------------------------------------------
\* the mark of a markdown fence
Cerca == <<"BQ", "BQ", "BQ">>

\* C30: a corrected SQL the validator accepted holds no ';' and no fence
\* mark; of a text with a ';' only the part before the first ';' is
\* validated: the verdict is the one of that part alone, whatever follows
\* the ';'
C30_SoAPrimeiraInstrucao ==
    /\ (Respondeu /\ valido) =>
          /\ ~contem(sql_validado, <<";">>)
          /\ ~contem(sql_validado, Cerca)
    /\ (Respondeu /\ contem(sql_bruto, <<";">>)) =>
          <<valido, sql_validado>> \in
              validar_e_corrigir_sql(antes_do_primeiro(sql_bruto, ";"), ANO_ATUAL)

\* a text whose second statement is a DROP, accepted as its first statement
C30_Witness ==
    /\ Respondeu
    /\ sql_bruto = <<"S", "E", "L", "E", "C", "T", " ", "x", ";", " ", "d", "r", "o", "p", " ", "t", "a", "b", "l", "e", " ", "t">>
    /\ valido
    /\ sql_validado = <<"S", "E", "L", "E", "C", "T", " ", "x", "\n", "L", "I", "M", "I", "T", " ", "1", "0", "0">>
=============================================================================
